---- MODULE Spec2Model ----
(***************************************************************************)
(* CollabVerse (peerlens-ai front end): the compatibility scorer and the   *)
(* team matcher of services/api.ts, the host state of App.tsx, and the     *)
(* graph build and force layout of components/NetworkGraph.tsx.            *)
(*                                                                         *)
(* Strings whose characters the code inspects (toLowerCase, includes) are  *)
(* sequences of one-character strings.  Language keys and ids, which the   *)
(* code only compares, are plain strings.  JavaScript numbers are modelled *)
(* exactly where the code stays in the rationals (the scorer: a fraction   *)
(* numerator/denominator) and as fixed-point integers in the layout.       *)
(***************************************************************************)
EXTENDS Integers, Sequences, FiniteSets, TLC

VARIABLES
    main, candidate, score,           \* scorer: the two arguments and the returned value
    mainStudentId, allStudents, team, \* team matcher: the two arguments and the outcome
    students, selectedUser, suggestions, autoTeam, error, loading,
    showOverview, selectedLanguage, showAddUserModal,
    fetchPending, request,            \* App.tsx: state hooks, and the awaited backend calls
    users, nodes, edges, frame,       \* NetworkGraph.tsx: users prop, node and edge state
    mounted, selectedUserProp, searchTerm, hostNext,
                                      \* NetworkGraph.tsx under React: the other props of the
                                      \* committed render, and the props of the host's next one
    hoveredNode, tooltip, clickedNode, animationTime, nodesRef,
                                      \* the other state hooks; the identity of the nodes array
    nodesQueue, edgesQueue, uiQueue, timeQueue,
                                      \* state updates queued for the next render
    timer, clickTimers, loop, scheduled,
                                      \* pending timeouts, the live animation effect, and the
                                      \* frame callbacks the browser holds
    emitted, lastRender, events,      \* onUserSelect calls; what the last render processed;
                                      \* the events delivered so far
    panel                             \* the tooltip panel on the canvas after the last draw

scoreVars == <<main, candidate, score>>
teamVars == <<mainStudentId, allStudents, team>>
appVars == <<students, selectedUser, suggestions, autoTeam, error, loading,
             showOverview, selectedLanguage, showAddUserModal, fetchPending, request>>
graphVars == <<users, nodes, edges, frame>>
reactVars == <<mounted, selectedUserProp, searchTerm, hostNext, hoveredNode, tooltip,
               clickedNode, animationTime, nodesRef, nodesQueue, edgesQueue, uiQueue,
               timeQueue, timer, clickTimers, loop, scheduled, emitted, lastRender, events,
               panel>>
vars == <<scoreVars, teamVars, appVars, graphVars, reactVars>>

\* null / undefined, and a call that has not returned yet
Null == [null |-> TRUE]
Pending == [pending |-> TRUE]

----------------------------------------------------------------------------
(* Numbers                                                                 *)

Max(a, b) == IF a >= b THEN a ELSE b
Min(a, b) == IF a <= b THEN a ELSE b
\* mutant of Abs: the difference is used with its sign
AbsDropped(a) == a
Abs(a) == IF a < 0 THEN 0 - a ELSE a

\* mutant of MathRound: Math.floor
MathFloor(num, den) == num \div den

\* Math.round of the fraction num/den (den > 0): floor(num/den + 1/2)
MathRound(num, den) == (2 * num + den) \div (2 * den)

----------------------------------------------------------------------------
(* Strings as character sequences                                          *)

UpperCase == <<"A","B","C","D","E","F","G","H","I","J","K","L","M",
               "N","O","P","Q","R","S","T","U","V","W","X","Y","Z">>
LowerCase == <<"a","b","c","d","e","f","g","h","i","j","k","l","m",
               "n","o","p","q","r","s","t","u","v","w","x","y","z">>

LowerChar(c) ==
    IF \E i \in 1..Len(UpperCase) : UpperCase[i] = c
    THEN LowerCase[CHOOSE i \in 1..Len(UpperCase) : UpperCase[i] = c]
    ELSE c

\* String.prototype.toLowerCase
ToLowerCase(s) == [i \in 1..Len(s) |-> LowerChar(s[i])]

\* String.prototype.includes: needle occurs in hay as a contiguous substring
StrIncludes(hay, needle) ==
    \E i \in 0..(Len(hay) - Len(needle)) : SubSeq(hay, i + 1, i + Len(needle)) = needle

\* Array.prototype.join(' ')
RECURSIVE JoinSpace(_)
JoinSpace(list) ==
    IF Len(list) = 0 THEN << >>
    ELSE IF Len(list) = 1 THEN list[1]
    ELSE list[1] \o <<" ">> \o JoinSpace(Tail(list))

\* Array.prototype.includes
ArrIncludes(arr, x) == \E i \in 1..Len(arr) : arr[i] = x

\* mutant of CountIncluded: the common names counted as a set
CountIncludedDistinct(arr, other) ==
    Cardinality({arr[i] : i \in {j \in 1..Len(arr) : ArrIncludes(other, arr[j])}})
\* arr.filter(x => other.includes(x)).length
CountIncluded(arr, other) == Cardinality({i \in 1..Len(arr) : ArrIncludes(other, arr[i])})

----------------------------------------------------------------------------
(* Profiles                                                                *)

Profile(id, username, name, techs, repos, followers, languages, projects) ==
    [id |-> id, github_username |-> username, name |-> name,
     tech_stack |-> [i \in 1..Len(techs) |-> [name |-> techs[i]]],
     github_stats |-> [repos |-> repos, followers |-> followers, languages |-> languages],
     projects |-> projects]

\* the collections the profile object lacks (read as undefined); a profile built
\* by Profile has them all
Absent(p) == IF "absent" \in DOMAIN p THEN p.absent ELSE {}

\* Object.keys(languages || {})
LanguageKeys(p) ==
    IF "languages" \in Absent(p) THEN {} ELSE DOMAIN p.github_stats.languages

\* tech_stack.map(tech => tech.name.toLowerCase())
LowerTechs(p) == [i \in 1..Len(p.tech_stack) |-> ToLowerCase(p.tech_stack[i].name)]

\* github_stats.repos + github_stats.followers
Activity(p) == p.github_stats.repos + p.github_stats.followers

----------------------------------------------------------------------------
(* services/api.ts: calculateCompatibility                                 *)

ProjectMatch(m, c) ==
    LET mainProjects == ToLowerCase(JoinSpace(m.projects))
        candidateProjects == ToLowerCase(JoinSpace(c.projects))
    IN StrIncludes(mainProjects, candidateProjects) \/ StrIncludes(candidateProjects, mainProjects)

\* score += projectMatch ? 15 : 5
ProjectScore(m, c) == IF ProjectMatch(m, c) THEN 15 ELSE 5

\* mutant of RawScore: the activity difference is normalised by main's activity
\* alone, as the overlap terms are normalised by main's counts
RawScoreByMain(m, c) ==
    LET commonTechs == CountIncluded(LowerTechs(m), LowerTechs(c))
        techDen == Max(Len(LowerTechs(m)), 1)
        activityDiff == Abs(Activity(m) - Activity(c))
        maxActivity == Max(Activity(m), 1)
        commonLanguages == Cardinality(LanguageKeys(m) \cap LanguageKeys(c))
        langDen == Max(Cardinality(LanguageKeys(m)), 1)
        den == techDen * maxActivity * langDen
    IN [num |-> commonTechs * 40 * maxActivity * langDen
                + (maxActivity - activityDiff) * 25 * techDen * langDen
                + commonLanguages * 20 * techDen * maxActivity
                + ProjectScore(m, c) * den,
        den |-> den]

\* mutant of RawScore: the overlaps are normalised by the pair's counts
RawScoreByPair(m, c) ==
    LET commonTechs == CountIncluded(LowerTechs(m), LowerTechs(c))
        techDen == Max(Len(LowerTechs(m)) + Len(LowerTechs(c)), 1)
        activityDiff == Abs(Activity(m) - Activity(c))
        maxActivity == Max(Max(Activity(m), Activity(c)), 1)
        commonLanguages == Cardinality(LanguageKeys(m) \cap LanguageKeys(c))
        langDen == Max(Cardinality(LanguageKeys(m)) + Cardinality(LanguageKeys(c)), 1)
        den == techDen * maxActivity * langDen
    IN [num |-> commonTechs * 40 * maxActivity * langDen
                + (maxActivity - activityDiff) * 25 * techDen * langDen
                + commonLanguages * 20 * techDen * maxActivity
                + ProjectScore(m, c) * den,
        den |-> den]

\* The sum of the four terms before rounding, as the fraction num/den:
\*   commonTechs/max(mainTechs,1)*40 + (1 - activityDiff/maxActivity)*25
\*   + commonLanguages/max(mainLanguages,1)*20 + (projectMatch ? 15 : 5)
RawScore(m, c) ==
    LET mainTechs == LowerTechs(m)
        candidateTechs == LowerTechs(c)
        commonTechs == CountIncluded(mainTechs, candidateTechs)
        techDen == Max(Len(mainTechs), 1)
        activityDiff == Abs(Activity(m) - Activity(c))
        maxActivity == Max(Max(Activity(m), Activity(c)), 1)
        commonLanguages == Cardinality(LanguageKeys(m) \cap LanguageKeys(c))
        langDen == Max(Cardinality(LanguageKeys(m)), 1)
        den == techDen * maxActivity * langDen
    IN [num |-> commonTechs * 40 * maxActivity * langDen
                + (maxActivity - activityDiff) * 25 * techDen * langDen
                + commonLanguages * 20 * techDen * maxActivity
                + ProjectScore(m, c) * den,
        den |-> den]

\* return Math.min(Math.round(score), 100)
calculateCompatibility(m, c) ==
    LET raw == RawScore(m, c) IN Min(MathRound(raw.num, raw.den), 100)

----------------------------------------------------------------------------
(* services/api.ts: makeTeam and its reasoning                             *)

\* Array.prototype.find: the first element with the id, undefined (Null) if none
FindById(list, id) ==
    IF \E i \in 1..Len(list) : list[i].id = id
    THEN list[CHOOSE i \in 1..Len(list) :
                  list[i].id = id /\ \A j \in 1..(i - 1) : list[j].id # id]
    ELSE Null

\* allStudents.filter(s => s.id !== mainStudentId)
OtherStudents(list, id) == SelectSeq(list, LAMBDA s : s.id # id)

\* { ...student, compatibility_score: score }
WithScore(student, s) == [compatibility_score |-> s] @@ student

\* otherStudents.map(student => ({ ...student, compatibility_score: score }))
ScoredStudents(mainStudent, others) ==
    [i \in 1..Len(others) |-> WithScore(others[i], calculateCompatibility(mainStudent, others[i]))]

\* mutant of InsertByScore: the comparator reversed (a - b)
RECURSIVE InsertByScoreAscending(_, _)
InsertByScoreAscending(sorted, x) ==
    IF sorted = << >> THEN <<x>>
    ELSE IF Head(sorted).compatibility_score <= x.compatibility_score
         THEN <<Head(sorted)>> \o InsertByScoreAscending(Tail(sorted), x)
         ELSE <<x>> \o sorted

\* mutant of InsertByScore: x is put before the elements of equal score
RECURSIVE InsertByScoreBeforeTies(_, _)
InsertByScoreBeforeTies(sorted, x) ==
    IF sorted = << >> THEN <<x>>
    ELSE IF Head(sorted).compatibility_score > x.compatibility_score
         THEN <<Head(sorted)>> \o InsertByScoreBeforeTies(Tail(sorted), x)
         ELSE <<x>> \o sorted

\* insertion of x into a list already sorted by descending score, after every
\* element whose score is not smaller (Array.prototype.sort is stable)
RECURSIVE InsertByScore(_, _)
InsertByScore(sorted, x) ==
    IF sorted = << >> THEN <<x>>
    ELSE IF Head(sorted).compatibility_score >= x.compatibility_score
         THEN <<Head(sorted)>> \o InsertByScore(Tail(sorted), x)
         ELSE <<x>> \o sorted

\* scoredStudents.sort((a, b) => b.compatibility_score - a.compatibility_score)
RECURSIVE SortByScore(_)
SortByScore(list) ==
    IF list = << >> THEN << >>
    ELSE InsertByScore(SortByScore(SubSeq(list, 1, Len(list) - 1)), list[Len(list)])

\* Array.prototype.slice(0, n)
Slice0(list, n) == SubSeq(list, 1, Min(n, Len(list)))

RECURSIVE SumScores(_)
SumScores(list) ==
    IF list = << >> THEN 0 ELSE Head(list).compatibility_score + SumScores(Tail(list))

\* the names of all members' tech stacks, in member order
RECURSIVE AllTechNames(_)
AllTechNames(members) ==
    IF members = << >> THEN << >>
    ELSE [i \in 1..Len(members[1].tech_stack) |-> members[1].tech_stack[i].name]
         \o AllTechNames(Tail(members))

\* the keys of techCount, in insertion order
RECURSIVE FirstOccurrences(_)
FirstOccurrences(names) ==
    IF names = << >> THEN << >>
    ELSE LET rest == FirstOccurrences(SubSeq(names, 1, Len(names) - 1))
             last == names[Len(names)]
         IN IF ArrIncludes(rest, last) THEN rest ELSE Append(rest, last)

\* findCommonTechnologies: the names counted members.length times, at most 3
findCommonTechnologies(members) ==
    LET names == AllTechNames(members)
        techCount(t) == Cardinality({i \in 1..Len(names) : names[i] = t})
    IN Slice0(SelectSeq(FirstOccurrences(names), LAMBDA t : techCount(t) = Len(members)), 3)

\* generateTeamReasoning: the sentences pushed to reasons, in order; the
\* fallback sentence when the joined text is empty
generateTeamReasoning(mainStudent, teammates) ==
    IF Len(teammates) > 0
    THEN LET mainTechs == Slice0([i \in 1..Len(mainStudent.tech_stack) |->
                                     mainStudent.tech_stack[i].name], 3)
             avgScore == MathRound(SumScores(teammates), Len(teammates))
             commonTechs == findCommonTechnologies(<<mainStudent>> \o teammates)
         IN <<[kind |-> "found", count |-> Len(teammates)]>>
            \o (IF Len(mainTechs) > 0
                THEN <<[kind |-> "expertise", techs |-> mainTechs]>> ELSE << >>)
            \o <<[kind |-> "average", score |-> avgScore]>>
            \o (IF Len(commonTechs) > 0
                THEN <<[kind |-> "synergy", techs |-> Slice0(commonTechs, 2)]>> ELSE << >>)
    ELSE <<[kind |-> "fallback"]>>

\* size of the team: scoredStudents.slice(0, 3)
TeamSize == 3

\* mutant of makeTeam: a missing anchor yields an empty team instead of an Error
makeTeamLenient(id, list) ==
    LET mainStudent == FindById(list, id)
    IN IF mainStudent = Null
       THEN [ok |-> TRUE,
             value |-> [members |-> << >>,
                        reasoning |-> <<[kind |-> "fallback"]>>,
                        required_skill |-> "Auto-Matched Compatibility"]]
       ELSE LET topTeammates ==
                    Slice0(SortByScore(ScoredStudents(mainStudent, OtherStudents(list, id))), 3)
            IN [ok |-> TRUE,
                value |-> [members |-> topTeammates,
                           reasoning |-> generateTeamReasoning(mainStudent, topTeammates),
                           required_skill |-> "Auto-Matched Compatibility"]]

\* makeTeam: the resolved value, or the Error the returned promise rejects with
makeTeam(id, list) ==
    LET mainStudent == FindById(list, id)
    IN IF mainStudent = Null
       THEN [ok |-> FALSE, message |-> "Main student not found"]
       ELSE LET topTeammates ==
                    Slice0(SortByScore(ScoredStudents(mainStudent, OtherStudents(list, id))),
                           TeamSize)
            IN [ok |-> TRUE,
                value |-> [members |-> topTeammates,
                           reasoning |-> generateTeamReasoning(mainStudent, topTeammates),
                           required_skill |-> "Auto-Matched Compatibility"]]

----------------------------------------------------------------------------
(* Scorer inputs: every profile over small sets of field values            *)

React == <<"R","e","a","c","t">>
Node == <<"N","o","d","e">>
react == <<"r","e","a","c","t">>
Python == <<"P","y","t","h","o","n">>
Rust == <<"R","u","s","t">>

\* longest tech stack built from the free names
MaxStack == 2

RECURSIVE SeqsUpTo(_, _)
SeqsUpTo(S, n) ==
    IF n = 0 THEN {<< >>}
    ELSE LET shorter == SeqsUpTo(S, n - 1)
         IN shorter \cup {Append(q, x) : q \in {r \in shorter : Len(r) = n - 1}, x \in S}

ScoreStacks ==
    SeqsUpTo({React, Node}, MaxStack) \cup {<<react>>, <<Python>>, <<Rust>>, <<React, react, Node>>}
\* <<repos, followers>>
ScoreCounts == {<<0, 0>>, <<10, 5>>, <<1000, 1000>>}
ScoreLanguages == {[l \in ks |-> 1] : ks \in SUBSET {"TypeScript", "Rust"}}
ScoreProjects == {<< >>, <<<<"a","b">>>>, <<<<"B">>>>, <<<<"c">>, <<"a","b">>>>}

ScoreProfiles ==
    {Profile("u", <<"u">>, <<"U">>, t, c[1], c[2], l, p) :
        t \in ScoreStacks, c \in ScoreCounts, l \in ScoreLanguages, p \in ScoreProjects}

ScoreInit ==
    /\ main \in ScoreProfiles
    /\ candidate \in ScoreProfiles
    /\ score = Pending

\* one call calculateCompatibility(main, candidate)
Score ==
    /\ score = Pending
    /\ score' = [value |-> calculateCompatibility(main, candidate)]
    /\ UNCHANGED <<main, candidate>>

----------------------------------------------------------------------------
(* A catalogue of profiles with distinct ids, for the team matcher and the *)
(* host                                                                    *)

\* number of profiles in the catalogue
NumStore == 4

Cycle(table, i) == table[((i - 1) % Len(table)) + 1]

StoreIds == <<"s1", "s2", "s3", "s4", "s5", "s6", "s7", "s8">>
StoreStacks == <<<<React, Node>>, <<react>>, <<Python>>, <<Node, Node>>, << >>, <<Rust, React>> >>
StoreCounts == <<<<10, 5>>, <<0, 0>>, <<1000, 1000>>, <<5, 10>>, <<20, 10>> >>
StoreLanguages == <<{"TypeScript"}, {}, {"TypeScript", "Rust"}, {"Rust"}>>
StoreProjects == <<<<<<"a","b">>>>, << >>, <<<<"c">>>> >>

StoreProfile(i) ==
    Profile(StoreIds[i], <<"u", StoreIds[i]>>, <<"U", StoreIds[i]>>,
            Cycle(StoreStacks, i), Cycle(StoreCounts, i)[1], Cycle(StoreCounts, i)[2],
            [l \in Cycle(StoreLanguages, i) |-> 1], Cycle(StoreProjects, i))

StoreProfiles == {StoreProfile(i) : i \in 1..NumStore}

\* an id no profile of the catalogue has
GhostId == "ghost"

----------------------------------------------------------------------------
(* Team matcher inputs                                                     *)

\* longest list handed to makeTeam
MaxStudents == 5

TeamInit ==
    /\ mainStudentId \in {p.id : p \in StoreProfiles} \cup {GhostId}
    /\ allStudents \in SeqsUpTo(StoreProfiles, MaxStudents)
    /\ team = Pending

\* one call makeTeam(mainStudentId, allStudents), settled
MakeTeam ==
    /\ team = Pending
    /\ team' = makeTeam(mainStudentId, allStudents)
    /\ UNCHANGED <<mainStudentId, allStudents>>

----------------------------------------------------------------------------
(* App.tsx: the host's state and handlers.  A handler that awaits the      *)
(* backend is two steps, the call and the settlement of the awaited        *)
(* promise; request holds the call in flight.  The controls that start a   *)
(* handler are disabled while loading, so at most one call is in flight    *)
(* beside the initial fetch.                                               *)

\* number of catalogue profiles the backend serves to the host
NumBackend == 3

BackendProfiles == {StoreProfile(i) : i \in 1..NumBackend}

RECURSIVE DistinctSeqs(_)
DistinctSeqs(S) ==
    {<< >>} \cup UNION {{<<x>> \o q : q \in DistinctSeqs(S \ {x})} : x \in S}

\* GET /students/: a snapshot with unique ids
FetchResponses == DistinctSeqs(BackendProfiles)

\* popularLanguages (one of them)
Languages == {"Python"}

\* the team the backend suggests for a skill
ServerTeam(language) ==
    [members |-> << >>, reasoning |-> <<[kind |-> "server"]>>, required_skill |-> language]

currentTeam == IF autoTeam # Null THEN autoTeam ELSE suggestions

AppInit ==
    /\ students = << >>
    /\ selectedUser = Null
    /\ suggestions = Null
    /\ autoTeam = Null
    /\ error = Null
    /\ loading = FALSE
    /\ showOverview = FALSE
    /\ selectedLanguage = ""
    /\ showAddUserModal = FALSE
    /\ fetchPending = TRUE
    /\ request = Null

\* fetchStudents: getStudents() resolved with data
FetchStudentsResolved ==
    /\ fetchPending
    /\ \E data \in FetchResponses : students' = data
    /\ fetchPending' = FALSE
    /\ UNCHANGED <<selectedUser, suggestions, autoTeam, error, loading, showOverview,
                   selectedLanguage, showAddUserModal, request>>

\* fetchStudents: getStudents() rejected
FetchStudentsRejected ==
    /\ fetchPending
    /\ error' = [message |-> "Backend not reachable. Make sure FastAPI is running."]
    /\ fetchPending' = FALSE
    /\ UNCHANGED <<students, selectedUser, suggestions, autoTeam, loading, showOverview,
                   selectedLanguage, showAddUserModal, request>>

\* mutant of AppendIfNew: the returned profile is appended without the lookup
AppendAlways(prev, newUser) == Append(prev, newUser)

\* setStudents(prev => prev.some(u => u.id === newUser.id) ? prev : [...prev, newUser])
AppendIfNew(prev, newUser) ==
    IF \E i \in 1..Len(prev) : prev[i].id = newUser.id THEN prev ELSE Append(prev, newUser)

\* handleAnalyze up to its await (the button is disabled while loading or
\* while the input is blank, so username is never empty)
HandleAnalyze ==
    /\ ~loading
    /\ loading' = TRUE
    /\ error' = Null
    /\ showOverview' = FALSE
    /\ request' = [kind |-> "analyze"]
    /\ UNCHANGED <<students, selectedUser, suggestions, autoTeam, selectedLanguage,
                   showAddUserModal, fetchPending>>

\* handleAnalyze after analyzeGitHubUser resolved with newUser
AnalyzeResolved ==
    /\ request = [kind |-> "analyze"]
    /\ \E newUser \in BackendProfiles :
          /\ students' = AppendIfNew(students, newUser)
          /\ selectedUser' = newUser
    /\ showOverview' = TRUE
    /\ loading' = FALSE
    /\ request' = Null
    /\ UNCHANGED <<suggestions, autoTeam, error, selectedLanguage, showAddUserModal,
                   fetchPending>>

\* handleAnalyze after analyzeGitHubUser rejected
AnalyzeRejected ==
    /\ request = [kind |-> "analyze"]
    /\ error' = [message |-> "Failed to analyze user."]
    /\ loading' = FALSE
    /\ request' = Null
    /\ UNCHANGED <<students, selectedUser, suggestions, autoTeam, showOverview,
                   selectedLanguage, showAddUserModal, fetchPending>>

\* onAddUser={() => setShowAddUserModal(true)} (disabled while loading)
OpenAddUserModal ==
    /\ ~loading
    /\ ~showAddUserModal
    /\ showAddUserModal' = TRUE
    /\ UNCHANGED <<students, selectedUser, suggestions, autoTeam, error, loading,
                   showOverview, selectedLanguage, fetchPending, request>>

\* onClose={() => setShowAddUserModal(false)} (disabled while loading)
CloseAddUserModal ==
    /\ ~loading
    /\ showAddUserModal
    /\ showAddUserModal' = FALSE
    /\ UNCHANGED <<students, selectedUser, suggestions, autoTeam, error, loading,
                   showOverview, selectedLanguage, fetchPending, request>>

\* handleAddUser up to its await (the modal's submit is disabled while loading)
HandleAddUser ==
    /\ showAddUserModal
    /\ ~loading
    /\ loading' = TRUE
    /\ error' = Null
    /\ showOverview' = FALSE
    /\ request' = [kind |-> "addUser"]
    /\ UNCHANGED <<students, selectedUser, suggestions, autoTeam, selectedLanguage,
                   showAddUserModal, fetchPending>>

\* handleAddUser after addUserByEnrollment resolved with newUser
AddUserResolved ==
    /\ request = [kind |-> "addUser"]
    /\ \E newUser \in BackendProfiles :
          /\ students' = AppendIfNew(students, newUser)
          /\ selectedUser' = newUser
    /\ showAddUserModal' = FALSE
    /\ showOverview' = TRUE
    /\ loading' = FALSE
    /\ request' = Null
    /\ UNCHANGED <<suggestions, autoTeam, error, selectedLanguage, fetchPending>>

\* handleAddUser after addUserByEnrollment rejected
AddUserRejected ==
    /\ request = [kind |-> "addUser"]
    /\ error' = [message |-> "Failed to add user."]
    /\ loading' = FALSE
    /\ request' = Null
    /\ UNCHANGED <<students, selectedUser, suggestions, autoTeam, showOverview,
                   selectedLanguage, showAddUserModal, fetchPending>>

\* handleTeamSuggestions up to its await (LanguageSelection is rendered when a
\* user is selected and no team is shown; its buttons are disabled while loading)
HandleTeamSuggestions ==
    /\ selectedUser # Null
    /\ currentTeam = Null
    /\ ~loading
    /\ \E language \in Languages :
          request' = [kind |-> "suggestions", id |-> selectedUser.id, language |-> language]
    /\ loading' = TRUE
    /\ error' = Null
    /\ showOverview' = FALSE
    /\ UNCHANGED <<students, selectedUser, suggestions, autoTeam, selectedLanguage,
                   showAddUserModal, fetchPending>>

\* mutant of SuggestionsResolved: the server team is stored in both slots
SuggestionsResolvedInBoth ==
    /\ request # Null
    /\ request.kind = "suggestions"
    /\ suggestions' = ServerTeam(request.language)
    /\ autoTeam' = ServerTeam(request.language)
    /\ selectedLanguage' = request.language
    /\ loading' = FALSE
    /\ request' = Null
    /\ UNCHANGED <<students, selectedUser, error, showOverview, showAddUserModal,
                   fetchPending>>

\* handleTeamSuggestions after getTeamSuggestions resolved
SuggestionsResolved ==
    /\ request # Null
    /\ request.kind = "suggestions"
    /\ suggestions' = ServerTeam(request.language)
    /\ autoTeam' = Null
    /\ selectedLanguage' = request.language
    /\ loading' = FALSE
    /\ request' = Null
    /\ UNCHANGED <<students, selectedUser, error, showOverview, showAddUserModal,
                   fetchPending>>

\* handleTeamSuggestions after getTeamSuggestions rejected
SuggestionsRejected ==
    /\ request # Null
    /\ request.kind = "suggestions"
    /\ error' = [message |-> "Failed to get team suggestions."]
    /\ loading' = FALSE
    /\ request' = Null
    /\ UNCHANGED <<students, selectedUser, suggestions, autoTeam, showOverview,
                   selectedLanguage, showAddUserModal, fetchPending>>

\* handleMakeTeam, whole: makeTeam awaits nothing, so its promise is settled
\* when it returns and the handler resumes before any other event is handled
\* (MakeTeamButton is rendered when a user is selected and no team is shown,
\* and is disabled while loading)
HandleMakeTeam ==
    /\ selectedUser # Null
    /\ currentTeam = Null
    /\ ~loading
    /\ LET outcome == makeTeam(selectedUser.id, students)
       IN IF outcome.ok
          THEN /\ autoTeam' = outcome.value
               /\ suggestions' = Null
               /\ selectedLanguage' = "Auto-Matched Team"
               /\ error' = Null
          ELSE /\ error' = [message |-> outcome.message]
               /\ UNCHANGED <<autoTeam, suggestions, selectedLanguage>>
    /\ showOverview' = FALSE
    /\ loading' = FALSE
    /\ UNCHANGED <<students, selectedUser, showAddUserModal, fetchPending, request>>

\* handleResetTeam (TeamBuilder is rendered when a team is shown)
HandleResetTeam ==
    /\ currentTeam # Null
    /\ suggestions' = Null
    /\ autoTeam' = Null
    /\ selectedLanguage' = ""
    /\ showOverview' = FALSE
    /\ UNCHANGED <<students, selectedUser, error, loading, showAddUserModal,
                   fetchPending, request>>

\* handleUserSelect, from a card of the student list or from a node of the
\* graph built from students (the graph stays rendered while a team is shown)
HandleUserSelect ==
    /\ \E i \in 1..Len(students) : selectedUser' = students[i]
    /\ showOverview' = FALSE
    /\ UNCHANGED <<students, suggestions, autoTeam, error, loading, selectedLanguage,
                   showAddUserModal, fetchPending, request>>

----------------------------------------------------------------------------
(* components/NetworkGraph.tsx: connection strength and the graph build.   *)
(* Fixed point: a position is in tenths of a canvas unit, a velocity in    *)
(* thousandths, a strength in five-hundredths (0.3 is 150, 0.4 is 200, 1   *)
(* is 500), which is exact for integer activity counts.  A node's colors   *)
(* and pulse phase, which only the drawing reads, are left out.            *)

CANVAS_WIDTH == 800
CANVAS_HEIGHT == 400

\* division rounded to the nearest integer (d > 0)
RoundDiv(a, d) == (2 * a + d) \div (2 * d)

\* mutant of calculateConnectionStrength: Math.min(strength, 1) dropped
calculateConnectionStrengthUncapped(user1, user2) ==
    CountIncluded(LowerTechs(user1), LowerTechs(user2)) * 200
        + (50 - Min(Abs(Activity(user1) - Activity(user2)), 50)) * 3

\* calculateConnectionStrength, in five-hundredths:
\*   commonTechs.length * 0.4 + (1 - Math.min(activityDiff / 50, 1)) * 0.3, at most 1
calculateConnectionStrength(user1, user2) ==
    LET commonTechs == CountIncluded(LowerTechs(user1), LowerTechs(user2))
        activityDiff == Abs(Activity(user1) - Activity(user2))
    IN Min(commonTechs * 200 + (50 - Min(activityDiff, 50)) * 3, 500)

\* Math.cos and Math.sin of (index / n) * 2 * Math.PI, in thousandths, for n <= 8
CosMilli ==
    <<<<1000>>,
      <<1000, -1000>>,
      <<1000, -500, -500>>,
      <<1000, 0, -1000, 0>>,
      <<1000, 309, -809, -809, 309>>,
      <<1000, 500, -500, -1000, -500, 500>>,
      <<1000, 623, -223, -901, -901, -223, 623>>,
      <<1000, 707, 0, -707, -1000, -707, 0, 707>>>>
SinMilli ==
    <<<<0>>,
      <<0, 0>>,
      <<0, 866, -866>>,
      <<0, 1000, 0, -1000>>,
      <<0, 951, 588, -588, -951>>,
      <<0, 866, 866, 0, -866, -866>>,
      <<0, 782, 975, 434, -434, -975, -782>>,
      <<0, 707, 1000, 707, 0, -707, -1000, -707>>>>

\* radius: 22
NodeRadius == 22

\* users.map((user, index) => ({ id: user.id, user, x, y, vx: 0, vy: 0, ... }))
\* on the circle of radius Math.min(centerX, centerY) * 0.6 around the centre
NewNodes(us, selected) ==
    LET n == Len(us)
        centerX == (CANVAS_WIDTH * 10) \div 2
        centerY == (CANVAS_HEIGHT * 10) \div 2
        radius == (Min(centerX, centerY) * 6) \div 10
    IN [i \in 1..n |->
           [id |-> us[i].id,
            user |-> us[i],
            x |-> centerX + RoundDiv(radius * CosMilli[n][i], 1000),
            y |-> centerY + RoundDiv(radius * SinMilli[n][i], 1000),
            vx |-> 0,
            vy |-> 0,
            radius |-> NodeRadius,
            isHighlighted |-> FALSE,
            isSearched |-> FALSE,
            isSelected |-> (selected # Null /\ selected.id = us[i].id)]]

\* insertion into a list sorted by descending similarity, after every element
\* whose similarity is not smaller (Array.prototype.sort is stable)
RECURSIVE InsertBySimilarity(_, _)
InsertBySimilarity(sorted, x) ==
    IF sorted = << >> THEN <<x>>
    ELSE IF Head(sorted).similarity >= x.similarity
         THEN <<Head(sorted)>> \o InsertBySimilarity(Tail(sorted), x)
         ELSE <<x>> \o sorted

\* .sort((a, b) => b.similarity - a.similarity)
RECURSIVE SortBySimilarity(_)
SortBySimilarity(list) ==
    IF list = << >> THEN << >>
    ELSE InsertBySimilarity(SortBySimilarity(SubSeq(list, 1, Len(list) - 1)), list[Len(list)])

\* mutant of Similarities: no sort, the first three in array order
SimilaritiesUnsorted(newNodes, i) ==
    LET targets == [k \in 1..(Len(newNodes) - 1) |->
                       IF k < i THEN newNodes[k] ELSE newNodes[k + 1]]
        scored == [k \in 1..Len(targets) |->
                      [node |-> targets[k],
                       similarity |-> calculateConnectionStrength(newNodes[i].user,
                                                                  targets[k].user)]]
    IN Slice0(scored, Min(3, Len(newNodes) - 1))

\* newNodes.filter((_, j) => j !== i).map(targetNode => ({ node, similarity }))
\*   .sort(...).slice(0, Math.min(3, users.length - 1))
Similarities(newNodes, i) ==
    LET targets == [k \in 1..(Len(newNodes) - 1) |->
                       IF k < i THEN newNodes[k] ELSE newNodes[k + 1]]
        scored == [k \in 1..Len(targets) |->
                      [node |-> targets[k],
                       similarity |-> calculateConnectionStrength(newNodes[i].user,
                                                                  targets[k].user)]]
    IN Slice0(SortBySimilarity(scored), Min(3, Len(newNodes) - 1))

\* mutant of EdgesFrom: the threshold test dropped
EdgesFromUnfiltered(newNodes, i) ==
    LET kept == Similarities(newNodes, i)
    IN [k \in 1..Len(kept) |->
           [source |-> newNodes[i], target |-> kept[k].node,
            strength |-> kept[k].similarity, isActive |-> FALSE]]

\* mutant of EdgesFrom: similarity >= 0.3
EdgesFromInclusive(newNodes, i) ==
    LET kept == SelectSeq(Similarities(newNodes, i), LAMBDA e : e.similarity >= 150)
    IN [k \in 1..Len(kept) |->
           [source |-> newNodes[i], target |-> kept[k].node,
            strength |-> kept[k].similarity, isActive |-> FALSE]]

\* if (similarity > 0.3) newEdges.push({ source, target, strength, isActive: false })
EdgesFrom(newNodes, i) ==
    LET kept == SelectSeq(Similarities(newNodes, i), LAMBDA e : e.similarity > 150)
    IN [k \in 1..Len(kept) |->
           [source |-> newNodes[i], target |-> kept[k].node,
            strength |-> kept[k].similarity, isActive |-> FALSE]]

\* newNodes.forEach((sourceNode, i) => ...): the edges of nodes 1..i, in order
RECURSIVE EdgesUpTo(_, _)
EdgesUpTo(newNodes, i) ==
    IF i = 0 THEN << >> ELSE EdgesUpTo(newNodes, i - 1) \o EdgesFrom(newNodes, i)

NewEdges(newNodes) == EdgesUpTo(newNodes, Len(newNodes))

----------------------------------------------------------------------------
(* components/NetworkGraph.tsx: applyForces                                *)

\* floor of the square root, by bisection on [lo, hi]
RECURSIVE SqrtBetween(_, _, _)
SqrtBetween(n, lo, hi) ==
    IF lo >= hi THEN lo
    ELSE LET mid == (lo + hi + 1) \div 2
         IN IF mid * mid <= n THEN SqrtBetween(n, mid, hi) ELSE SqrtBetween(n, lo, mid - 1)

\* Math.sqrt, rounded down
MathSqrt(n) == SqrtBetween(n, 0, 46340)

\* mutant of BoundaryClamp: clamped to the canvas, the margin forgotten
BoundaryClampNoMargin(margin, limit, v) == Max(0, Min(limit, v))
\* Math.max(margin, Math.min(limit - margin, v))
BoundaryClamp(margin, limit, v) == Max(margin, Min(limit - margin, v))

\* the velocity one other node adds by repulsion:
\*   if (distance > 0 && distance < 150) force = 1000 / (distance * distance)
Repulsion(node, other) ==
    LET dx == node.x - other.x
        dy == node.y - other.y
        d2 == dx * dx + dy * dy
        distance == MathSqrt(d2)
    IN IF other.id # node.id /\ d2 > 0 /\ d2 < 1500 * 1500
       THEN LET force == RoundDiv(100000000, d2)
            IN [vx |-> RoundDiv(dx * force, distance), vy |-> RoundDiv(dy * force, distance)]
       ELSE [vx |-> 0, vy |-> 0]

\* the velocity one edge takes away by attraction: the other endpoint is the
\* node object the edge holds
\*   if (distance > 0) force = (distance - 100) * 0.015 * edge.strength
Attraction(node, edge) ==
    IF edge.source.id = node.id \/ edge.target.id = node.id
    THEN LET other == IF edge.source.id = node.id THEN edge.target ELSE edge.source
             dx == node.x - other.x
             dy == node.y - other.y
             d2 == dx * dx + dy * dy
             distance == MathSqrt(d2)
         IN IF d2 > 0
            THEN LET force == RoundDiv((distance - 1000) * 3 * edge.strength, 1000)
                 IN [vx |-> RoundDiv(dx * force, distance),
                     vy |-> RoundDiv(dy * force, distance)]
            ELSE [vx |-> 0, vy |-> 0]
    ELSE [vx |-> 0, vy |-> 0]

RECURSIVE SumRepulsion(_, _)
SumRepulsion(node, others) ==
    IF others = << >> THEN [vx |-> 0, vy |-> 0]
    ELSE LET r == Repulsion(node, Head(others))
             rest == SumRepulsion(node, Tail(others))
         IN [vx |-> r.vx + rest.vx, vy |-> r.vy + rest.vy]

RECURSIVE SumAttraction(_, _)
SumAttraction(node, es) ==
    IF es = << >> THEN [vx |-> 0, vy |-> 0]
    ELSE LET a == Attraction(node, Head(es))
             rest == SumAttraction(node, Tail(es))
         IN [vx |-> a.vx + rest.vx, vy |-> a.vy + rest.vy]

\* applyForces: damping by 0.7, repulsion, attraction, the centre force beyond
\* centerX * 0.5, the move by a tenth of the velocity, the boundary clamp
applyForces(node, allNodes, allEdges) ==
    LET centerX == (CANVAS_WIDTH * 10) \div 2
        centerY == (CANVAS_HEIGHT * 10) \div 2
        rep == SumRepulsion(node, allNodes)
        att == SumAttraction(node, allEdges)
        dxCenter == centerX - node.x
        dyCenter == centerY - node.y
        farFromCenter == dxCenter * dxCenter + dyCenter * dyCenter > (centerX \div 2) * (centerX \div 2)
        vx == RoundDiv(node.vx * 7, 10) + rep.vx - att.vx
                + (IF farFromCenter THEN RoundDiv(dxCenter, 50) ELSE 0)
        vy == RoundDiv(node.vy * 7, 10) + rep.vy - att.vy
                + (IF farFromCenter THEN RoundDiv(dyCenter, 50) ELSE 0)
        margin == (node.radius + 15) * 10
    IN [node EXCEPT
            !.vx = vx,
            !.vy = vy,
            !.x = BoundaryClamp(margin, CANVAS_WIDTH * 10, node.x + RoundDiv(vx, 1000)),
            !.y = BoundaryClamp(margin, CANVAS_HEIGHT * 10, node.y + RoundDiv(vy, 1000))]

\* nodes.map(node => applyForces(node, nodes, edges))
UpdatedNodes(ns, es) == [i \in 1..Len(ns) |-> applyForces(ns[i], ns, es)]

----------------------------------------------------------------------------
(* Graph inputs: a catalogue of profiles with distinct ids                 *)

\* number of profiles in the graph's catalogue (at most 8)
NumGraph == 6

Go == <<"G","o">>
GraphIds == <<"g1", "g2", "g3", "g4", "g5", "g6", "g7", "g8">>
GraphStacks ==
    <<<<React, Node>>, <<react>>, <<Python>>, <<Rust>>, << >>, <<Go>>, <<Node, Node>>, <<Go, Rust>> >>
GraphCounts ==
    <<<<10, 5>>, <<20, 10>>, <<10, 5>>, <<1000, 1000>>, <<0, 0>>, <<10, 5>>, <<30, 10>>, <<0, 0>> >>
GraphLanguages ==
    <<{"TypeScript"}, {"TypeScript"}, {"Python"}, {"Rust"}, {}, {"Go"}, {"JavaScript"}, {"Rust"}>>

GraphProfile(i) ==
    Profile(GraphIds[i], <<"u", GraphIds[i]>>, <<"U", GraphIds[i]>>,
            GraphStacks[i], GraphCounts[i][1], GraphCounts[i][2],
            [l \in GraphLanguages[i] |-> 1], << >>)

GraphProfiles == {GraphProfile(i) : i \in 1..NumGraph}

\* frames stepped after a build
MaxFrames == 2

BuildInit ==
    /\ users \in DistinctSeqs(GraphProfiles)
    /\ nodes = << >>
    /\ edges = << >>
    /\ frame = 0

\* the graph build effect: if (users.length === 0) return; setNodes(newNodes);
\* setEdges(newEdges)
BuildGraph ==
    /\ users # << >>
    /\ frame = 0
    /\ nodes' = NewNodes(users, Null)
    /\ edges' = NewEdges(NewNodes(users, Null))
    /\ UNCHANGED <<users, frame>>

\* one frame of animate: setNodes(nodes.map(node => applyForces(node, nodes, edges)))
Animate ==
    /\ nodes # << >>
    /\ frame < MaxFrames
    /\ nodes' = UpdatedNodes(nodes, edges)
    /\ frame' = frame + 1
    /\ UNCHANGED <<users, edges>>

----------------------------------------------------------------------------
(* components/NetworkGraph.tsx: the component under React                  *)
(*                                                                         *)
(* A render takes the props the host passes and the state updates queued   *)
(* so far, in the order they were queued, commits them, and then runs the  *)
(* cleanups and the bodies of the effects whose dependencies changed, in   *)
(* the order the component declares them: the graph build, the node state, *)
(* the animation. What the effects set is queued for the next render.      *)
(* React may also render the updates of input events (clicks, mouse moves, *)
(* form submits) ahead of the updates queued by effects, timers and        *)
(* promises; both orders are modelled.                                     *)

\* searchTerm ? username.toLowerCase().includes(term) || name?.toLowerCase()
\*   .includes(term) || tech_stack.some(tech => tech.name.toLowerCase().includes(term))
\*   : false, with term = searchTerm.toLowerCase()
IsSearched(user, term) ==
    /\ term # << >>
    /\ \/ StrIncludes(ToLowerCase(user.github_username), ToLowerCase(term))
       \/ StrIncludes(ToLowerCase(user.name), ToLowerCase(term))
       \/ \E i \in 1..Len(user.tech_stack) :
              StrIncludes(ToLowerCase(user.tech_stack[i].name), ToLowerCase(term))

\* mutant of NodeFlags: the mapped node is built afresh and its velocity is lost
NodeFlagsStopped(prevNodes, term, selected, hovered) ==
    [i \in 1..Len(prevNodes) |->
        [prevNodes[i] EXCEPT
            !.vx = 0,
            !.vy = 0,
            !.isSearched = IsSearched(prevNodes[i].user, term),
            !.isSelected = selected # Null /\ selected.id = prevNodes[i].user.id,
            !.isHighlighted = hovered # Null /\ hovered.id = prevNodes[i].user.id]]

\* the node state effect's updater: prevNodes.map(node => ({ ...node, isSearched,
\* isSelected, isHighlighted })), with the props and the state of its render
NodeFlags(prevNodes, term, selected, hovered) ==
    [i \in 1..Len(prevNodes) |->
        [prevNodes[i] EXCEPT
            !.isSearched = IsSearched(prevNodes[i].user, term),
            !.isSelected = selected # Null /\ selected.id = prevNodes[i].user.id,
            !.isHighlighted = hovered # Null /\ hovered.id = prevNodes[i].user.id]]

\* prevEdges.map(edge => ({ ...edge, isActive: hoveredNode && (...) }))
EdgeActivity(prevEdges, hovered) ==
    [i \in 1..Len(prevEdges) |->
        [prevEdges[i] EXCEPT
            !.isActive = hovered # Null /\ (prevEdges[i].source.id = hovered.id
                                            \/ prevEdges[i].target.id = hovered.id)]]

\* one queued update of nodes applied to the state before it
ApplyNodesUpdate(state, update) ==
    IF update.kind = "value" THEN update.value
    ELSE NodeFlags(state, update.term, update.selected, update.hovered)

\* one queued update of edges applied to the state before it
ApplyEdgesUpdate(state, update) ==
    IF update.kind = "value" THEN update.value ELSE EdgeActivity(state, update.hovered)

\* the queued updates applied in the order they were queued
RECURSIVE ProcessNodes(_, _)
ProcessNodes(state, queue) ==
    IF queue = << >> THEN state
    ELSE ProcessNodes(ApplyNodesUpdate(state, Head(queue)), Tail(queue))

RECURSIVE ProcessEdges(_, _)
ProcessEdges(state, queue) ==
    IF queue = << >> THEN state
    ELSE ProcessEdges(ApplyEdgesUpdate(state, Head(queue)), Tail(queue))

\* the value the last queued setter of one state hook leaves (they all set values)
RECURSIVE LastSet(_, _, _)
LastSet(state, queue, field) ==
    IF queue = << >> THEN state
    ELSE LastSet(IF Head(queue).field = field THEN Head(queue).value ELSE state,
                 Tail(queue), field)

\* a point is inside a node's circle: Math.sqrt(dx * dx + dy * dy) <= node.radius
\* (positions in tenths)
Contains(node, point) ==
    LET dx == node.x - point[1]
        dy == node.y - point[2]
    IN dx * dx + dy * dy <= (node.radius * 10) * (node.radius * 10)

\* mutant of FindNode: the last match, not the first
FindLastNode(ns, point) ==
    LET hits == {i \in 1..Len(ns) : Contains(ns[i], point)}
    IN IF hits = {} THEN 0 ELSE CHOOSE i \in hits : \A j \in hits : j <= i

\* nodes.find(node => ...): the index of the first match, 0 for undefined
FindNode(ns, point) ==
    LET hits == {i \in 1..Len(ns) : Contains(ns[i], point)}
    IN IF hits = {} THEN 0 ELSE CHOOSE i \in hits : \A j \in hits : i <= j

\* mutant of drawTooltip: the panel is put at the pointer, not adjusted
drawTooltipAtPointer(tip) ==
    [x |-> tip.x + 150, y |-> tip.y, width |-> 1800, height |-> 1000]

\* drawTooltip: the rectangle of the panel (in tenths),
\*   tooltipX = Math.min(x + 15, CANVAS_WIDTH - tooltipWidth - 10)
\*   tooltipY = Math.min(y, CANVAS_HEIGHT - tooltipHeight - 10)
drawTooltip(tip) ==
    [x |-> Min(tip.x + 150, (CANVAS_WIDTH - 180 - 10) * 10),
     y |-> Min(tip.y, (CANVAS_HEIGHT - 100 - 10) * 10),
     width |-> 1800, height |-> 1000]

\* what one call of animate leaves of the tooltip on the cleared canvas:
\* if (tooltip) drawTooltip(ctx, tooltip)
DrawnPanel(tip) == IF tip = Null THEN Null ELSE drawTooltip(tip)

\* the component's state hooks as useState initialises them, nothing queued
FreshState ==
    /\ nodes = << >>
    /\ edges = << >>
    /\ hoveredNode = Null
    /\ tooltip = Null
    /\ clickedNode = Null
    /\ animationTime = 0
    /\ nodesRef = 0
    /\ nodesQueue = << >>
    /\ edgesQueue = << >>
    /\ uiQueue = << >>
    /\ timeQueue = 0
    /\ timer = FALSE
    /\ loop = Null
    /\ scheduled = {}

\* the component is not mounted and nothing of it is left behind
Unmounted ==
    /\ mounted = FALSE
    /\ selectedUserProp = Null
    /\ searchTerm = << >>
    /\ hostNext = [users |-> << >>, selectedUser |-> Null, searchTerm |-> << >>,
                   lane |-> "none", cause |-> "none"]
    /\ hoveredNode = Null
    /\ tooltip = Null
    /\ clickedNode = Null
    /\ animationTime = 0
    /\ nodesRef = 0
    /\ nodesQueue = << >>
    /\ edgesQueue = << >>
    /\ uiQueue = << >>
    /\ timeQueue = 0
    /\ timer = FALSE
    /\ clickTimers = 0
    /\ loop = Null
    /\ scheduled = {}
    /\ emitted = << >>
    /\ lastRender = "none"
    /\ panel = Null
    /\ events = 0

\* setNodes(newNodes) of the build effect, nothing when users is empty
\* (if (users.length === 0) return)
BuildNodesUpdates(us, selected, cause) ==
    IF us = << >> THEN << >>
    ELSE <<[kind |-> "value", value |-> NewNodes(us, selected), from |-> "build",
            cause |-> cause]>>

\* setEdges(newEdges) of the build effect
BuildEdgesUpdates(us, selected) ==
    IF us = << >> THEN << >>
    ELSE <<[kind |-> "value", value |-> NewEdges(NewNodes(us, selected))]>>

\* setNodes(updatedNodes) of animate, from the nodes and edges of its closure
AnimateUpdate(ns, es) ==
    [kind |-> "value", value |-> UpdatedNodes(ns, es), from |-> "animate", cause |-> "none"]

\* mutant of cancelAnimationFrame: the cleanup cancels nothing
CancelNothing(frames, effect) == frames

\* the animation effect's cleanup: cancelAnimationFrame(animationFrameId), the
\* handle the effect's closure holds; an effect that returned early has no cleanup
cancelAnimationFrame(frames, effect) ==
    IF effect = Null THEN frames ELSE {f \in frames : f.id # effect.frameId}

\* calls of animate the component makes at most
MaxCalls == 3
\* events delivered to the component at most (host changes, pointer events,
\* unmounts)
MaxEvents == 1
\* longest snapshot the host passes
NumShown == 2

\* the snapshots the host passes: the first profiles of the catalogue
ShownSnapshots == {[i \in 1..n |-> GraphProfile(i)] : n \in 0..NumShown}
\* '' and 'react'
SearchTerms == {<< >>, react}
\* canvas points, in tenths: the first node at its start in a snapshot of two,
\* the top left corner, a point near the centre, two points 22 and 22.1
\* below the centre, and points within 22 of the corners of the box the layout
\* keeps the nodes in
PointerPoints ==
    {<<5200, 2000>>, <<0, 0>>, <<4020, 2010>>, <<4000, 2220>>, <<4000, 2221>>,
     <<7780, 3780>>, <<7630, 3850>>, <<7850, 3630>>, <<370, 150>>, <<150, 370>>}

\* the lane of the host's next render after an input event changed its state:
\* it stays with the promise-driven change it is batched with
UrgentOr(lane) == IF lane = "default" THEN "default" ELSE "urgent"

\* the first render, and the effects after it: the build queues the nodes and
\* the edges, the node state effect queues its updaters and starts its timer,
\* the animation effect returns at nodes.length === 0
Mount ==
    /\ ~mounted
    /\ FreshState
    /\ mounted' = TRUE
    /\ users' = hostNext.users
    /\ selectedUserProp' = hostNext.selectedUser
    /\ searchTerm' = hostNext.searchTerm
    /\ hostNext' = [hostNext EXCEPT !.lane = "none", !.cause = "none"]
    /\ nodesQueue' = BuildNodesUpdates(hostNext.users, hostNext.selectedUser, "host")
                        \o <<[kind |-> "flags", term |-> hostNext.searchTerm,
                              selected |-> hostNext.selectedUser, hovered |-> Null]>>
    /\ edgesQueue' = BuildEdgesUpdates(hostNext.users, hostNext.selectedUser)
                        \o <<[kind |-> "active", hovered |-> Null]>>
    /\ timer' = TRUE
    /\ lastRender' = "props"
    /\ panel' = Null
    /\ UNCHANGED <<nodes, edges, frame, hoveredNode, tooltip, clickedNode, animationTime,
                   nodesRef, uiQueue, timeQueue, clickTimers, loop, scheduled, emitted,
                   events>>

\* the component is removed: every effect's cleanup runs (clearTimeout,
\* cancelAnimationFrame) and the state is dropped; the 300 ms timeouts of
\* handleCanvasClick are not cleared
Unmount ==
    /\ mounted
    /\ events < MaxEvents
    /\ mounted' = FALSE
    /\ users' = << >>
    /\ selectedUserProp' = Null
    /\ searchTerm' = << >>
    /\ nodes' = << >>
    /\ edges' = << >>
    /\ hoveredNode' = Null
    /\ tooltip' = Null
    /\ clickedNode' = Null
    /\ animationTime' = 0
    /\ nodesRef' = 0
    /\ nodesQueue' = << >>
    /\ edgesQueue' = << >>
    /\ uiQueue' = << >>
    /\ timeQueue' = 0
    /\ timer' = FALSE
    /\ loop' = Null
    /\ scheduled' = cancelAnimationFrame(scheduled, loop)
    /\ lastRender' = "none"
    /\ panel' = Null
    /\ events' = events + 1
    /\ UNCHANGED <<frame, hostNext, clickTimers, emitted>>

\* the host's state changes after a promise resolved (students fetched, a user
\* analysed or added): a new snapshot, and the added user selected or the
\* selection kept
HostUsers ==
    /\ events < MaxEvents
    /\ \E us \in ShownSnapshots \ {hostNext.users} :
       \E selected \in {hostNext.selectedUser}
                        \cup {us[i] : i \in {Len(us)} \ {0}} :
          hostNext' = [hostNext EXCEPT !.users = us, !.selectedUser = selected,
                                       !.lane = "default", !.cause = "host"]
    /\ events' = events + 1
    /\ UNCHANGED <<graphVars, mounted, selectedUserProp, searchTerm, hoveredNode, tooltip,
                   clickedNode, animationTime, nodesRef, nodesQueue, edgesQueue, uiQueue,
                   timeQueue, timer, clickTimers, loop, scheduled, emitted, lastRender,
                   panel>>

\* the host's search term changes after a form submit or a chip click
HostSearch ==
    /\ events < MaxEvents
    /\ \E term \in SearchTerms \ {hostNext.searchTerm} :
          hostNext' = [hostNext EXCEPT !.searchTerm = term, !.lane = UrgentOr(@),
                                       !.cause = "host"]
    /\ events' = events + 1
    /\ UNCHANGED <<graphVars, mounted, selectedUserProp, searchTerm, hoveredNode, tooltip,
                   clickedNode, animationTime, nodesRef, nodesQueue, edgesQueue, uiQueue,
                   timeQueue, timer, clickTimers, loop, scheduled, emitted, lastRender,
                   panel>>

\* a node object of the committed array: its id and the array it belongs to
NodeObject(i) == [id |-> nodes[i].id, ref |-> nodesRef]

\* handleCanvasMouseMove at a point of the canvas
HandleCanvasMouseMove ==
    /\ mounted /\ users # << >>
    /\ events < MaxEvents
    /\ \E point \in PointerPoints :
          LET hovered == FindNode(nodes, point)
          IN uiQueue' = uiQueue \o
                <<[field |-> "hoveredNode", lane |-> "urgent",
                   value |-> IF hovered = 0 THEN Null ELSE NodeObject(hovered)],
                  [field |-> "tooltip", lane |-> "urgent",
                   value |-> IF hovered = 0 THEN Null
                             ELSE [x |-> point[1], y |-> point[2],
                                   user |-> nodes[hovered].user, object |-> events + 1]]>>
    /\ events' = events + 1
    /\ UNCHANGED <<graphVars, mounted, selectedUserProp, searchTerm, hostNext, hoveredNode,
                   tooltip, clickedNode, animationTime, nodesRef, nodesQueue, edgesQueue,
                   timeQueue, timer, clickTimers, loop, scheduled, emitted, lastRender,
                   panel>>

\* handleCanvasMouseLeave
HandleCanvasMouseLeave ==
    /\ mounted /\ users # << >>
    /\ events < MaxEvents
    /\ uiQueue' = uiQueue \o <<[field |-> "hoveredNode", lane |-> "urgent", value |-> Null],
                                [field |-> "tooltip", lane |-> "urgent", value |-> Null]>>
    /\ events' = events + 1
    /\ UNCHANGED <<graphVars, mounted, selectedUserProp, searchTerm, hostNext, hoveredNode,
                   tooltip, clickedNode, animationTime, nodesRef, nodesQueue, edgesQueue,
                   timeQueue, timer, clickTimers, loop, scheduled, emitted, lastRender,
                   panel>>

\* handleCanvasClick at a point of the canvas: on a hit, setClickedNode, the
\* 300 ms timeout, and onUserSelect(clickedNode.user), on which the host
\* selects the user (App.tsx handleUserSelect)
ClickAt(point) ==
    LET clicked == FindNode(nodes, point)
    IN IF clicked = 0
       THEN UNCHANGED <<uiQueue, clickTimers, emitted, hostNext>>
       ELSE /\ uiQueue' = Append(uiQueue, [field |-> "clickedNode", lane |-> "urgent",
                                           value |-> NodeObject(clicked)])
            /\ clickTimers' = clickTimers + 1
            /\ emitted' = Append(emitted, nodes[clicked].user)
            /\ hostNext' =
                  IF hostNext.selectedUser = nodes[clicked].user THEN hostNext
                  ELSE [hostNext EXCEPT
                           !.selectedUser = nodes[clicked].user,
                           !.lane = UrgentOr(@),
                           !.cause = IF @ = "host" THEN "host" ELSE "click"]

HandleCanvasClick ==
    /\ mounted /\ users # << >>
    /\ events < MaxEvents
    /\ \E point \in PointerPoints : ClickAt(point)
    /\ events' = events + 1
    /\ UNCHANGED <<graphVars, mounted, selectedUserProp, searchTerm, hoveredNode, tooltip,
                   clickedNode, animationTime, nodesRef, nodesQueue, edgesQueue, timeQueue,
                   timer, loop, scheduled, lastRender,
                   panel>>

\* the node state effect's timeout: setAnimationTime(prev => prev + 1)
TimerFires ==
    /\ mounted /\ timer
    /\ timer' = FALSE
    /\ timeQueue' = timeQueue + 1
    /\ UNCHANGED <<graphVars, mounted, selectedUserProp, searchTerm, hostNext, hoveredNode,
                   tooltip, clickedNode, animationTime, nodesRef, nodesQueue, edgesQueue,
                   uiQueue, clickTimers, loop, scheduled, emitted, lastRender, events,
                   panel>>

\* a timeout of handleCanvasClick: setClickedNode(null), which an unmounted
\* component ignores
ClickTimerFires ==
    /\ clickTimers > 0
    /\ clickTimers' = clickTimers - 1
    /\ uiQueue' = IF mounted
                  THEN Append(uiQueue, [field |-> "clickedNode", lane |-> "default",
                                        value |-> Null])
                  ELSE uiQueue
    /\ UNCHANGED <<graphVars, mounted, selectedUserProp, searchTerm, hostNext, hoveredNode,
                   tooltip, clickedNode, animationTime, nodesRef, nodesQueue, edgesQueue,
                   timeQueue, timer, loop, scheduled, emitted, lastRender, events,
                   panel>>

\* the browser runs a scheduled frame callback: animate once more, from the
\* nodes and edges of its closure; it queues setNodes and schedules the next
\* frame, whose handle replaces the one in the closure's animationFrameId
FrameFires ==
    /\ frame < MaxCalls
    /\ \E f \in scheduled :
          /\ scheduled' = (scheduled \ {f}) \cup {[f EXCEPT !.id = frame + 1]}
          /\ loop' = IF loop # Null /\ loop.owner = f.owner
                     THEN [loop EXCEPT !.frameId = frame + 1]
                     ELSE loop
          /\ nodesQueue' = IF mounted THEN Append(nodesQueue, AnimateUpdate(f.nodes, f.edges))
                           ELSE nodesQueue
          /\ panel' = IF mounted THEN DrawnPanel(f.tooltip) ELSE panel
    /\ frame' = frame + 1
    /\ UNCHANGED <<users, nodes, edges, mounted, selectedUserProp, searchTerm, hostNext,
                   hoveredNode, tooltip, clickedNode, animationTime, nodesRef, edgesQueue,
                   uiQueue, timeQueue, timer, clickTimers, emitted, lastRender, events>>

\* something waits for a render
RenderPending ==
    \/ hostNext.lane # "none"
    \/ uiQueue # << >>
    \/ nodesQueue # << >>
    \/ edgesQueue # << >>
    \/ timeQueue > 0

\* input events wait for a render, and nothing of a lower priority is mixed
\* with them in the host's change or in the pointer state
UrgentPending ==
    /\ hostNext.lane # "default"
    /\ hostNext.lane = "urgent" \/ uiQueue # << >>
    /\ \A i \in 1..Len(uiQueue) : uiQueue[i].lane = "urgent"

\* one render of the mounted component and the effects after its commit.
\* urgent: only the updates of input events are processed, the updates queued
\* by effects, timers and frame callbacks stay queued.
RenderWith(urgent) ==
    LET usersChanged == hostNext.users # users
        selectedChanged == hostNext.selectedUser # selectedUserProp
        termChanged == hostNext.searchTerm # searchTerm
        nodesProcessed == IF urgent THEN << >> ELSE nodesQueue
        edgesProcessed == IF urgent THEN << >> ELSE edgesQueue
        ticks == IF urgent THEN 0 ELSE timeQueue
        newNodes == ProcessNodes(nodes, nodesProcessed)
        newEdges == ProcessEdges(edges, edgesProcessed)
        newHovered == LastSet(hoveredNode, uiQueue, "hoveredNode")
        newTooltip == LastSet(tooltip, uiQueue, "tooltip")
        \* the dependencies are compared with Object.is: every processed update of
        \* nodes or edges makes a new array
        nodesChanged == nodesProcessed # << >>
        edgesChanged == edgesProcessed # << >>
        hoveredChanged == newHovered # hoveredNode
        tooltipChanged == newTooltip # tooltip
        runBuild == usersChanged \/ selectedChanged
        runNodeState == termChanged \/ selectedChanged \/ hoveredChanged
        runAnimation == nodesChanged \/ edgesChanged \/ tooltipChanged \/ hoveredChanged
                            \/ ticks > 0
        \* if (!canvasRef.current || nodes.length === 0) return: the canvas is
        \* rendered when users is not empty
        animates == runAnimation /\ hostNext.users # << >> /\ newNodes # << >>
        cancelled == cancelAnimationFrame(scheduled, loop)
    IN /\ mounted
       /\ frame < MaxCalls
       /\ users' = hostNext.users
       /\ selectedUserProp' = hostNext.selectedUser
       /\ searchTerm' = hostNext.searchTerm
       /\ hostNext' = [hostNext EXCEPT !.lane = "none", !.cause = "none"]
       /\ nodes' = newNodes
       /\ edges' = newEdges
       /\ nodesRef' = IF nodesChanged THEN nodesRef + 1 ELSE nodesRef
       /\ hoveredNode' = newHovered
       /\ tooltip' = newTooltip
       /\ clickedNode' = LastSet(clickedNode, uiQueue, "clickedNode")
       /\ animationTime' = animationTime + ticks
       /\ timeQueue' = timeQueue - ticks
       /\ uiQueue' = << >>
       /\ nodesQueue' =
             (IF urgent THEN nodesQueue ELSE << >>)
             \o (IF runBuild
                 THEN BuildNodesUpdates(hostNext.users, hostNext.selectedUser, hostNext.cause)
                 ELSE << >>)
             \o (IF runNodeState
                 THEN <<[kind |-> "flags", term |-> hostNext.searchTerm,
                         selected |-> hostNext.selectedUser, hovered |-> newHovered]>>
                 ELSE << >>)
             \o (IF animates THEN <<AnimateUpdate(newNodes, newEdges)>> ELSE << >>)
       /\ edgesQueue' =
             (IF urgent THEN edgesQueue ELSE << >>)
             \o (IF runBuild THEN BuildEdgesUpdates(hostNext.users, hostNext.selectedUser)
                 ELSE << >>)
             \o (IF runNodeState THEN <<[kind |-> "active", hovered |-> newHovered]>>
                 ELSE << >>)
       /\ timer' = (runNodeState \/ timer)
       /\ scheduled' =
             IF ~runAnimation THEN scheduled
             ELSE IF animates
                  THEN cancelled \cup {[id |-> frame + 1, owner |-> frame + 1,
                                        nodes |-> newNodes, edges |-> newEdges,
                                        tooltip |-> newTooltip]}
                  ELSE cancelled
       /\ loop' = IF ~runAnimation THEN loop
                  ELSE IF animates THEN [owner |-> frame + 1, frameId |-> frame + 1]
                  ELSE Null
       /\ frame' = IF animates THEN frame + 1 ELSE frame
       /\ panel' = IF animates THEN DrawnPanel(newTooltip)
                   ELSE IF hostNext.users = << >> THEN Null
                   ELSE panel
       /\ lastRender' = IF usersChanged \/ selectedChanged \/ termChanged THEN "props"
                        ELSE IF urgent THEN lastRender
                        ELSE "state"
       /\ UNCHANGED <<mounted, clickTimers, emitted, events>>

\* a render that processes everything queued
Render == RenderPending /\ RenderWith(FALSE)

\* a render of the input events alone, ahead of the rest
RenderUrgent ==
    /\ UrgentPending
    /\ nodesQueue # << >> \/ edgesQueue # << >> \/ timeQueue > 0
    /\ RenderWith(TRUE)

\* the component before its first render, with the props the host will pass
ComponentInit ==
    /\ mounted = FALSE
    /\ users = << >> /\ nodes = << >> /\ edges = << >> /\ frame = 0
    /\ selectedUserProp = Null
    /\ searchTerm = << >>
    /\ \E us \in ShownSnapshots, term \in SearchTerms :
          hostNext = [users |-> us, selectedUser |-> Null, searchTerm |-> term,
                      lane |-> "none", cause |-> "none"]
    /\ hoveredNode = Null
    /\ tooltip = Null
    /\ clickedNode = Null
    /\ animationTime = 0
    /\ nodesRef = 0
    /\ nodesQueue = << >>
    /\ edgesQueue = << >>
    /\ uiQueue = << >>
    /\ timeQueue = 0
    /\ timer = FALSE
    /\ clickTimers = 0
    /\ loop = Null
    /\ scheduled = {}
    /\ emitted = << >>
    /\ lastRender = "none"
    /\ panel = Null
    /\ events = 0

----------------------------------------------------------------------------
(* Layout inputs: node arrays placed anywhere, inside the canvas or not    *)

\* longest node array handed to the layout step
MaxStepNodes == 2

\* <<x, y>> in tenths: left of the canvas, the centre, next to the centre, the
\* two corners of the allowed box, beyond the bottom right corner
StepPositions ==
    {<<-500, 2000>>, <<4000, 2000>>, <<4050, 2030>>, <<370, 370>>, <<7630, 3630>>,
     <<9000, 4500>>}
\* <<vx, vy>> in thousandths
StepVelocities == {<<0, 0>>, <<60000, -60000>>}

PlacedNode(i, pos, vel) ==
    [NewNodes(<<GraphProfile(i)>>, Null)[1] EXCEPT
        !.x = pos[1], !.y = pos[2], !.vx = vel[1], !.vy = vel[2]]

RECURSIVE PlacedArrays(_)
PlacedArrays(n) ==
    IF n = 0 THEN {<< >>}
    ELSE {Append(ns, PlacedNode(n, pos, vel)) :
             ns \in PlacedArrays(n - 1), pos \in StepPositions, vel \in StepVelocities}

\* no edge, or one edge between the first two nodes
StepEdges(ns) ==
    {<< >>} \cup
    (IF Len(ns) >= 2
     THEN {<<[source |-> ns[1], target |-> ns[2], strength |-> st, isActive |-> FALSE]>> :
              st \in {200, 500}}
     ELSE {})

StepInit ==
    /\ nodes \in UNION {PlacedArrays(n) : n \in 1..MaxStepNodes}
    /\ edges \in StepEdges(nodes)
    /\ users = [i \in 1..Len(nodes) |-> nodes[i].user]
    /\ frame = 0

----------------------------------------------------------------------------
(* Calls on profiles that lack a collection: the field reads as undefined  *)

\* reading a property of undefined throws a TypeError
TypeError == [threw |-> "TypeError"]

\* calculateCompatibility: tech_stack.map and projects.join are called on the
\* field as it is; only languages is read as languages || {}
calculateCompatibilityCall(m, c) ==
    IF {"tech_stack", "projects"} \cap (Absent(m) \cup Absent(c)) # {}
    THEN TypeError
    ELSE [value |-> calculateCompatibility(m, c)]

\* calculateConnectionStrength: tech_stack.map is called on the field as it is;
\* languages and projects are not read
calculateConnectionStrengthCall(user1, user2) ==
    IF "tech_stack" \in Absent(user1) \cup Absent(user2)
    THEN TypeError
    ELSE [value |-> calculateConnectionStrength(user1, user2)]

Collections == {"tech_stack", "languages", "projects"}
MalformedStacks == {<< >>, <<React>>}
MalformedLanguages == {[l \in ks |-> 1] : ks \in {{}, {"Rust"}}}
MalformedProjects == {<< >>, <<<<"a","b">>>>}

\* a profile object lacking the collections of absent (their slot in the record
\* is a placeholder that no read reaches)
PartialProfile(t, l, p, absent) ==
    [absent |-> absent] @@
    Profile("u", <<"u">>, <<"U">>,
            IF "tech_stack" \in absent THEN << >> ELSE t, 10, 5,
            IF "languages" \in absent THEN [k \in {} |-> 1] ELSE l,
            IF "projects" \in absent THEN << >> ELSE p)

MalformedProfiles ==
    {PartialProfile(t, l, p, absent) :
        t \in MalformedStacks, l \in MalformedLanguages, p \in MalformedProjects,
        absent \in SUBSET Collections}

MalformedInit ==
    /\ main \in MalformedProfiles
    /\ candidate \in MalformedProfiles
    /\ score = Pending

\* one call calculateCompatibility(main, candidate)
ScoreMalformed ==
    /\ score = Pending
    /\ score' = [fn |-> "calculateCompatibility",
                 outcome |-> calculateCompatibilityCall(main, candidate)]
    /\ UNCHANGED <<main, candidate>>

\* one call calculateConnectionStrength(main, candidate)
StrengthMalformed ==
    /\ score = Pending
    /\ score' = [fn |-> "calculateConnectionStrength",
                 outcome |-> calculateConnectionStrengthCall(main, candidate)]
    /\ UNCHANGED <<main, candidate>>

----------------------------------------------------------------------------
(* Graph inputs with many strong connections: profiles that share          *)
(* technologies, at equal and at different strengths                       *)

\* number of profiles to draw the shown list from
NumDense == 5

NodeLower == <<"n","o","d","e">>
DenseStacks ==
    <<<<React, Node>>, <<react>>, <<NodeLower, React>>, <<Node>>, <<React>>, <<react, Go>>,
      <<Go>> >>
DenseCounts ==
    <<<<10, 5>>, <<10, 5>>, <<20, 10>>, <<30, 30>>, <<1000, 1000>>, <<10, 5>>, <<0, 0>> >>

DenseProfile(i) ==
    Profile(GraphIds[i], <<"u", GraphIds[i]>>, <<"U", GraphIds[i]>>,
            DenseStacks[i], DenseCounts[i][1], DenseCounts[i][2], << >>, << >>)

DenseProfiles == {DenseProfile(i) : i \in 1..NumDense}

DenseInit ==
    /\ users \in DistinctSeqs(DenseProfiles)
    /\ nodes = << >>
    /\ edges = << >>
    /\ frame = 0

----------------------------------------------------------------------------
(* Connection strength inputs: pairs of profiles over small sets of tech   *)
(* stacks and activity counts                                              *)

\* <<repos, followers>>
StrengthCounts ==
    {<<0, 0>>, <<10, 5>>, <<20, 10>>, <<30, 30>>, <<1000, 990>>, <<1000, 1000>>}

StrengthProfiles ==
    {Profile("u", <<"u">>, <<"U">>, t, c[1], c[2], << >>, << >>) :
        t \in ScoreStacks, c \in StrengthCounts}

StrengthInit ==
    /\ main \in StrengthProfiles
    /\ candidate \in StrengthProfiles
    /\ score = Pending

\* one call calculateConnectionStrength(main, candidate)
Strength ==
    /\ score = Pending
    /\ score' = [value |-> calculateConnectionStrength(main, candidate)]
    /\ UNCHANGED <<main, candidate>>

----------------------------------------------------------------------------
(* The parts of the state a specification does not exercise stay as        *)
(* constructed.                                                            *)

ScoreIdle == main = Null /\ candidate = Null /\ score = Pending
TeamIdle == mainStudentId = "" /\ allStudents = << >> /\ team = Pending
AppIdle ==
    /\ students = << >>
    /\ selectedUser = Null
    /\ suggestions = Null
    /\ autoTeam = Null
    /\ error = Null
    /\ loading = FALSE
    /\ showOverview = FALSE
    /\ selectedLanguage = ""
    /\ showAddUserModal = FALSE
    /\ fetchPending = FALSE
    /\ request = Null
GraphIdle == users = << >> /\ nodes = << >> /\ edges = << >> /\ frame = 0
ReactIdle == Unmounted

----------------------------------------------------------------------------
(* Specification of the scorer: calculateCompatibility on every pair       *)

SpecScoreInit == ScoreInit /\ TeamIdle /\ AppIdle /\ GraphIdle /\ ReactIdle
SpecScoreNext == Score /\ UNCHANGED <<teamVars, appVars, graphVars, reactVars>>
SpecScore == SpecScoreInit /\ [][SpecScoreNext]_vars

----------------------------------------------------------------------------
(* Claims about calculateCompatibility                                     *)

Returned == score # Pending
StackNames(p) == [i \in 1..Len(p.tech_stack) |-> p.tech_stack[i].name]
AllEmpty(p) == p.tech_stack = << >> /\ LanguageKeys(p) = {} /\ p.projects = << >>

\* C1: for valid profiles (counts >= 0), empty collections included, the value
\* calculateCompatibility returns is an integer from 0 to 100.
C1_ScoreInRange == Returned => score.value \in 0..100
C1_Witness == Returned /\ AllEmpty(main) /\ AllEmpty(candidate) /\ score.value \in 0..100

\* C2 as stated: a profile with all four fields present scores 100 against itself.
C2_SelfMatchPresent == (Returned /\ candidate = main) => score.value = 100
\* C2 amended: a profile whose tech stack and language map are non-empty scores
\* 100 against itself.
C2_SelfMatchNonEmpty ==
    (Returned /\ candidate = main /\ main.tech_stack # << >> /\ LanguageKeys(main) # {})
        => score.value = 100
C2_Witness ==
    /\ Returned /\ candidate = main
    /\ Len(main.tech_stack) = 2 /\ LanguageKeys(main) # {} /\ main.projects # << >>
    /\ score.value = 100

ReactNodeAt10And5(p) ==
    /\ StackNames(p) = <<React, Node>>
    /\ p.github_stats.repos = 10 /\ p.github_stats.followers = 5
C7_Scenario ==
    /\ Returned
    /\ ReactNodeAt10And5(main) /\ ReactNodeAt10And5(candidate)
    /\ main.projects = candidate.projects
\* C7 as stated: identical stacks React, Node, 10 repos and 5 followers each and
\* identical project lists give a score of at least 90.
C7_ScenarioAtLeast90 == C7_Scenario => score.value >= 90
\* C7 amended: identical stacks React, Node, 10 repos and 5 followers each,
\* identical project lists and a non-empty language map of main whose keys are
\* all keys of the candidate's map give a score of at least 90.
C7_FullOverlapAtLeast90 ==
    (C7_Scenario /\ LanguageKeys(main) # {} /\ LanguageKeys(main) \subseteq LanguageKeys(candidate))
        => score.value >= 90
C7_Witness ==
    /\ C7_Scenario /\ main.projects # << >>
    /\ LanguageKeys(main) = {"TypeScript"} /\ LanguageKeys(candidate) = {"TypeScript", "Rust"}
    /\ score.value >= 90

C8_Scenario ==
    /\ Returned
    /\ StackNames(main) = <<Python>>
    /\ main.github_stats.repos = 0 /\ main.github_stats.followers = 0
    /\ StackNames(candidate) = <<Rust>>
    /\ candidate.github_stats.repos = 1000 /\ candidate.github_stats.followers = 1000
\* C8 as stated: stack Python at 0 repos, 0 followers against stack Rust at 1000
\* repos, 1000 followers scores below 20.
C8_ScenarioBelow20 == C8_Scenario => score.value < 20
\* C8 amended: stack Python at 0 repos, 0 followers against stack Rust at 1000
\* repos, 1000 followers scores below 20 when the two language maps share no key.
C8_NoLanguageBelow20 ==
    (C8_Scenario /\ LanguageKeys(main) \cap LanguageKeys(candidate) = {}) => score.value < 20
C8_Witness ==
    /\ C8_Scenario
    /\ LanguageKeys(main) = {"TypeScript"} /\ LanguageKeys(candidate) = {"Rust"}
    /\ score.value < 20

\* the lower-cased tech names of a profile, as a set
TechNameSet(p) == {ToLowerCase(p.tech_stack[i].name) : i \in 1..Len(p.tech_stack)}
\* main's tech entries whose lower-cased name is one of the candidate's
MatchedEntries(m, c) ==
    {i \in 1..Len(m.tech_stack) : ToLowerCase(m.tech_stack[i].name) \in TechNameSet(c)}

\* T + A + L + P as a fraction, T = 40 * techCount / max(techSize, 1)
TermSum(m, c, techCount, techSize) ==
    LET techDen == IF techSize > 1 THEN techSize ELSE 1
        actM == m.github_stats.repos + m.github_stats.followers
        actC == c.github_stats.repos + c.github_stats.followers
        actDen == IF actM >= actC /\ actM >= 1 THEN actM ELSE IF actC >= 1 THEN actC ELSE 1
        actDiff == IF actM >= actC THEN actM - actC ELSE actC - actM
        langCount == Cardinality(DOMAIN m.github_stats.languages \cap DOMAIN c.github_stats.languages)
        langSize == Cardinality(DOMAIN m.github_stats.languages)
        langDen == IF langSize > 1 THEN langSize ELSE 1
        textM == ToLowerCase(JoinSpace(m.projects))
        textC == ToLowerCase(JoinSpace(c.projects))
        P == IF StrIncludes(textM, textC) \/ StrIncludes(textC, textM) THEN 15 ELSE 5
    IN [num |-> 40 * techCount * actDen * langDen
                + 25 * (actDen - actDiff) * techDen * langDen
                + 20 * langCount * techDen * actDen
                + P * techDen * actDen * langDen,
        den |-> techDen * actDen * langDen]

\* v = min(100, round(num/den)): v is 100 from 99.5 up, else v - 1/2 <= num/den < v + 1/2
IsMinRound(v, sum) ==
    IF 2 * sum.num >= 199 * sum.den THEN v = 100
    ELSE (2 * v - 1) * sum.den <= 2 * sum.num /\ 2 * sum.num < (2 * v + 1) * sum.den

\* C20 as stated: the score is min(100, round(T + A + L + P)) with T = 40 * the
\* size of the intersection of the two lower-cased tech-name sets / max(|main
\* techs|, 1), whether |main techs| counts main's entries or main's distinct names.
C20_SetFormula ==
    Returned =>
        LET common == Cardinality(TechNameSet(main) \cap TechNameSet(candidate))
        IN \/ IsMinRound(score.value, TermSum(main, candidate, common, Len(main.tech_stack)))
           \/ IsMinRound(score.value,
                         TermSum(main, candidate, common, Cardinality(TechNameSet(main))))
\* C20 amended: the score is min(100, round(T + A + L + P)) with T = 40 * the
\* number of main's tech entries whose lower-cased name is among the candidate's
\* lower-cased names / max(number of main's tech entries, 1), A = 25 * (1 -
\* |actM - actC| / max(actM, actC, 1)) with act = repos + followers, L = 20 *
\* |common language keys| / max(|main languages|, 1), and P = 15 if one joined
\* lower-cased project text is a substring of the other, else 5.
C20_EntryFormula ==
    Returned =>
        IsMinRound(score.value,
                   TermSum(main, candidate, Cardinality(MatchedEntries(main, candidate)),
                           Len(main.tech_stack)))
\* main lists one technology twice among three entries, the candidate once
C20_Witness ==
    /\ Returned
    /\ Len(main.tech_stack) = 3 /\ Cardinality(TechNameSet(main)) = 2
    /\ Cardinality(MatchedEntries(main, candidate)) = 2
    /\ Cardinality(TechNameSet(main) \cap TechNameSet(candidate)) = 1

\* T + A + L + P as a fraction where a collection that is empty on either
\* profile contributes zero
ZeroedTermSum(m, c) ==
    LET noTech == m.tech_stack = << >> \/ c.tech_stack = << >>
        noLang == DOMAIN m.github_stats.languages = {} \/ DOMAIN c.github_stats.languages = {}
        noProjects == m.projects = << >> \/ c.projects = << >>
        techCount == IF noTech THEN 0 ELSE Cardinality(MatchedEntries(m, c))
        techDen == IF Len(m.tech_stack) > 1 THEN Len(m.tech_stack) ELSE 1
        actM == m.github_stats.repos + m.github_stats.followers
        actC == c.github_stats.repos + c.github_stats.followers
        actDen == IF actM >= actC /\ actM >= 1 THEN actM ELSE IF actC >= 1 THEN actC ELSE 1
        actDiff == IF actM >= actC THEN actM - actC ELSE actC - actM
        langCount ==
            IF noLang THEN 0
            ELSE Cardinality(DOMAIN m.github_stats.languages \cap DOMAIN c.github_stats.languages)
        langSize == Cardinality(DOMAIN m.github_stats.languages)
        langDen == IF langSize > 1 THEN langSize ELSE 1
        textM == ToLowerCase(JoinSpace(m.projects))
        textC == ToLowerCase(JoinSpace(c.projects))
        P == IF noProjects THEN 0
             ELSE IF StrIncludes(textM, textC) \/ StrIncludes(textC, textM) THEN 15 ELSE 5
    IN [num |-> 40 * techCount * actDen * langDen
                + 25 * (actDen - actDiff) * techDen * langDen
                + 20 * langCount * techDen * actDen
                + P * techDen * actDen * langDen,
        den |-> techDen * actDen * langDen]

\* C21: an empty tech list, an empty language map or an empty project list on
\* either profile makes the corresponding sub-score contribute zero to the
\* total: the score is the rounded, capped sum of the remaining terms.
C21_EmptyContributesZero ==
    Returned => IsMinRound(score.value, ZeroedTermSum(main, candidate))
\* the same for the tech list and the language map alone, the project term as
\* the code computes it
C21_EmptyTechAndLanguagesZero ==
    (Returned /\ (main.tech_stack = << >> \/ candidate.tech_stack = << >>)
              /\ (LanguageKeys(main) = {} \/ LanguageKeys(candidate) = {}))
        => IsMinRound(score.value, [num |-> 25 * (Max(Max(Activity(main), Activity(candidate)), 1)
                                                   - Abs(Activity(main) - Activity(candidate)))
                                             + ProjectScore(main, candidate)
                                               * Max(Max(Activity(main), Activity(candidate)), 1),
                                    den |-> Max(Max(Activity(main), Activity(candidate)), 1)])

----------------------------------------------------------------------------
(* Specification of the calls on malformed profiles                        *)

OutsideScore == UNCHANGED <<teamVars, appVars, graphVars, reactVars>>

SpecMalformedInit == MalformedInit /\ TeamIdle /\ AppIdle /\ GraphIdle /\ ReactIdle
SpecMalformedNext ==
    \/ ScoreMalformed /\ OutsideScore
    \/ StrengthMalformed /\ OutsideScore
SpecMalformed == SpecMalformedInit /\ [][SpecMalformedNext]_vars

\* the profile with every absent collection replaced by an empty one
WithEmptyForAbsent(p) == [p EXCEPT !.absent = {}]
LacksCollection(p) == Absent(p) # {}

\* C12: when a profile lacks its tech-stack, language or project field,
\* calculateCompatibility and calculateConnectionStrength return the result they
\* return for the profile with the absent collection empty, and do not throw.
C12_AbsentAsEmpty ==
    (Returned /\ (LacksCollection(main) \/ LacksCollection(candidate))) =>
        score.outcome =
            IF score.fn = "calculateCompatibility"
            THEN [value |-> calculateCompatibility(WithEmptyForAbsent(main),
                                                   WithEmptyForAbsent(candidate))]
            ELSE [value |-> calculateConnectionStrength(WithEmptyForAbsent(main),
                                                        WithEmptyForAbsent(candidate))]

----------------------------------------------------------------------------
(* Specification of the connection strength: one call on every pair        *)

SpecStrengthInit == StrengthInit /\ TeamIdle /\ AppIdle /\ GraphIdle /\ ReactIdle
SpecStrengthNext ==
    \/ Strength /\ OutsideScore
SpecStrength == SpecStrengthInit /\ [][SpecStrengthNext]_vars

\* the strength is returned in five-hundredths: 500 is 1, 200 is 0.4, 150 is 0.3
ActivityGap == Abs(Activity(main) - Activity(candidate))
LargerActivity == Max(Max(Activity(main), Activity(candidate)), 1)

\* C22 as stated: the strength is min(1, common * 0.4 + 0.3 * (1 - |act1 - act2| /
\* max(act1, act2, 1))), common being the number of common lower-cased tech
\* names, counted as names or as entries of the first profile.
C22_RescaledActivity ==
    Returned =>
        \E common \in {Cardinality(TechNameSet(main) \cap TechNameSet(candidate)),
                       Cardinality(MatchedEntries(main, candidate))} :
            score.value * LargerActivity =
                Min(500 * LargerActivity,
                    200 * common * LargerActivity + 150 * (LargerActivity - ActivityGap))
\* C22 amended: the strength is min(1, common * 0.4 + 0.3 * (1 - min(|act1 - act2|
\* / 50, 1))) with act = repos + followers: the activity gap is measured against
\* the fixed scale 50, not against the larger activity; common is the number of
\* the first profile's tech entries whose lower-cased name is among the second's.
C22_FixedScaleActivity ==
    Returned =>
        LET common == Cardinality(MatchedEntries(main, candidate))
            activityTerm == IF ActivityGap >= 50 THEN 0 ELSE 150 - 3 * ActivityGap
            strength == 200 * common + activityTerm
        IN score.value = IF strength > 500 THEN 500 ELSE strength
\* a strength below the cap for two active profiles less than 50 apart
C22_Witness ==
    /\ Returned
    /\ Activity(main) > 0 /\ Activity(candidate) > 0
    /\ ActivityGap > 0 /\ ActivityGap < 50
    /\ Cardinality(MatchedEntries(main, candidate)) = 1
    /\ score.value < 500
\* C29: the connection strength is symmetric:
\* calculateConnectionStrength(u1, u2) = calculateConnectionStrength(u2, u1).
C29_Symmetric ==
    Returned => score.value = calculateConnectionStrength(candidate, main)
\* the same for profiles that list no technology twice
C29_SymmetricWithoutRepeats ==
    (Returned /\ Cardinality(TechNameSet(main)) = Len(main.tech_stack)
              /\ Cardinality(TechNameSet(candidate)) = Len(candidate.tech_stack))
        => score.value = calculateConnectionStrength(candidate, main)

----------------------------------------------------------------------------
(* Specification of the team matcher: makeTeam on every list              *)

SpecTeamInit == TeamInit /\ ScoreIdle /\ AppIdle /\ GraphIdle /\ ReactIdle
SpecTeamNext == MakeTeam /\ UNCHANGED <<scoreVars, appVars, graphVars, reactVars>>
SpecTeam == SpecTeamInit /\ [][SpecTeamNext]_vars


----------------------------------------------------------------------------
(* Claims about makeTeam                                                   *)

AnchorPresent == \E i \in 1..Len(allStudents) : allStudents[i].id = mainStudentId

\* C3: when the anchor id is in the list, makeTeam returns at most 3 members,
\* none with the anchor's id, in order of non-increasing compatibility_score.
C3_TeamOfAnchor ==
    (team # Pending /\ AnchorPresent) =>
        /\ team.ok
        /\ Len(team.value.members) <= 3
        /\ \A i \in 1..Len(team.value.members) : team.value.members[i].id # mainStudentId
        /\ \A i \in 1..(Len(team.value.members) - 1) :
              team.value.members[i].compatibility_score
                  >= team.value.members[i + 1].compatibility_score
\* a list with more than 3 others, not in score order, gave a team of 3
C3_Witness ==
    /\ team # Pending /\ AnchorPresent /\ team.ok
    /\ Len(team.value.members) = 3
    /\ LET mainStudent == FindById(allStudents, mainStudentId)
           others == OtherStudents(allStudents, mainStudentId)
       IN /\ Len(others) > 3
          /\ \E i, j \in 1..Len(others) :
                /\ i < j
                /\ calculateCompatibility(mainStudent, others[i])
                       < calculateCompatibility(mainStudent, others[j])

\* the positions of the other profiles, the anchor, and the score of a position
OtherPositions == {j \in 1..Len(allStudents) : allStudents[j].id # mainStudentId}
Anchor ==
    allStudents[CHOOSE i \in 1..Len(allStudents) :
                    /\ allStudents[i].id = mainStudentId
                    /\ \A j \in 1..(i - 1) : allStudents[j].id # mainStudentId]
AnchorScore(j) == calculateCompatibility(Anchor, allStudents[j])
\* the number of other profiles ordered before position j: a greater score, or
\* the same score earlier in the list
RankAmongOthers(j) ==
    Cardinality({k \in OtherPositions :
                    \/ AnchorScore(k) > AnchorScore(j)
                    \/ AnchorScore(k) = AnchorScore(j) /\ k < j})

\* C24: when the anchor is present, makeTeam's members are exactly the first
\* min(3, number of other profiles) entries of the other profiles ordered by
\* descending compatibility score, ties kept in list order; each member carries
\* compatibility_score = calculateCompatibility(anchor, member).
C24_TopThreeStable ==
    (team # Pending /\ AnchorPresent) =>
        /\ team.ok
        /\ Len(team.value.members) = Min(3, Cardinality(OtherPositions))
        /\ \A j \in OtherPositions :
              RankAmongOthers(j) < 3 =>
                  /\ team.value.members[RankAmongOthers(j) + 1].compatibility_score
                        = AnchorScore(j)
                  /\ \A f \in DOMAIN allStudents[j] :
                        team.value.members[RankAmongOthers(j) + 1][f] = allStudents[j][f]
\* more than 3 others, and two different profiles of equal score of which the
\* earlier is a member and the later is the third member or left out
C24_Witness ==
    /\ team # Pending /\ AnchorPresent /\ team.ok
    /\ Cardinality(OtherPositions) > 3
    /\ \E j, k \in OtherPositions :
          /\ j < k
          /\ allStudents[j] # allStudents[k]
          /\ AnchorScore(j) = AnchorScore(k)
          /\ RankAmongOthers(j) < 3
          /\ RankAmongOthers(k) >= 2

\* the technologies named in the team-synergy sentence of the reasoning
SynergyTechs ==
    UNION {{team.value.reasoning[s].techs[t] : t \in 1..Len(team.value.reasoning[s].techs)} :
              s \in {r \in 1..Len(team.value.reasoning) :
                        team.value.reasoning[r].kind = "synergy"}}
\* the tech names of a profile, as written
WrittenTechNames(p) == {p.tech_stack[i].name : i \in 1..Len(p.tech_stack)}

\* C25: every technology named in the team-synergy sentence of makeTeam's
\* reasoning is in the tech stack of the anchor and of every chosen member; when
\* no member is chosen the reasoning is the fixed fallback sentence.
C25_SynergyShared ==
    (team # Pending /\ AnchorPresent) =>
        /\ team.ok
        /\ \A t \in SynergyTechs :
              /\ t \in WrittenTechNames(Anchor)
              /\ \A m \in 1..Len(team.value.members) :
                    t \in WrittenTechNames(team.value.members[m])
        /\ team.value.members = << >> => team.value.reasoning = <<[kind |-> "fallback"]>>
\* the same for teams in which nobody lists a technology twice
C25_SynergySharedWithoutRepeats ==
    (/\ team # Pending /\ AnchorPresent
     /\ Cardinality(WrittenTechNames(Anchor)) = Len(Anchor.tech_stack)
     /\ \A j \in OtherPositions :
           Cardinality(WrittenTechNames(allStudents[j])) = Len(allStudents[j].tech_stack))
        => C25_SynergyShared

\* C10: makeTeam called with an empty profile list returns an empty result (no
\* members) rather than failing.
C10_EmptyListEmptyTeam ==
    (team # Pending /\ allStudents = << >>) => (team.ok /\ team.value.members = << >>)

----------------------------------------------------------------------------
(* Specification of the host: every interleaving of the handlers           *)

SpecAppInit == AppInit /\ ScoreIdle /\ TeamIdle /\ GraphIdle /\ ReactIdle
OutsideApp == UNCHANGED <<scoreVars, teamVars, graphVars, reactVars>>

SpecAppNext ==
    \/ FetchStudentsResolved /\ OutsideApp
    \/ FetchStudentsRejected /\ OutsideApp
    \/ HandleAnalyze /\ OutsideApp
    \/ AnalyzeResolved /\ OutsideApp
    \/ AnalyzeRejected /\ OutsideApp
    \/ OpenAddUserModal /\ OutsideApp
    \/ CloseAddUserModal /\ OutsideApp
    \/ HandleAddUser /\ OutsideApp
    \/ AddUserResolved /\ OutsideApp
    \/ AddUserRejected /\ OutsideApp
    \/ HandleTeamSuggestions /\ OutsideApp
    \/ SuggestionsResolved /\ OutsideApp
    \/ SuggestionsRejected /\ OutsideApp
    \/ HandleMakeTeam /\ OutsideApp
    \/ HandleResetTeam /\ OutsideApp
    \/ HandleUserSelect /\ OutsideApp
SpecApp == SpecAppInit /\ [][SpecAppNext]_vars


----------------------------------------------------------------------------
(* Claims about the host                                                   *)

AnchorAbsent ==
    /\ selectedUser # Null
    /\ \A i \in 1..Len(students) : students[i].id # selectedUser.id
NotFoundError == [message |-> "Main student not found"]

\* C4: when the selected user's id is the id of no profile of students, makeTeam
\* rejects with the not-found error, and handleMakeTeam records the error, keeps
\* autoTeam and suggestions as they were and ends with loading false.
C4_NotFoundRecorded ==
    [][(HandleMakeTeam /\ AnchorAbsent) =>
          /\ makeTeam(selectedUser.id, students) = [ok |-> FALSE, message |-> NotFoundError.message]
          /\ error' = NotFoundError
          /\ autoTeam' = autoTeam
          /\ suggestions' = suggestions
          /\ loading' = FALSE]_vars
\* handleMakeTeam has run for a selected user missing from students
C4_Witness == AnchorAbsent /\ error = NotFoundError /\ ~loading /\ autoTeam = Null

\* C30: under any interleaving of the initial fetch, analyze-user and add-user
\* completions and user selections, whenever selectedUser is non-null the
\* students list has a profile with the same id.
C30_SelectedInStudents ==
    selectedUser # Null => \E i \in 1..Len(students) : students[i].id = selectedUser.id
\* the same once the initial fetch has settled
C30_SelectedInStudentsAfterFetch ==
    [][(~fetchPending /\ C30_SelectedInStudents) => C30_SelectedInStudents']_vars

\* C16: whatever handleMakeTeam, handleTeamSuggestions and handleResetTeam runs
\* have happened, successful or failed, at most one of autoTeam and suggestions
\* is non-null.
C16_OneTeamSource == autoTeam = Null \/ suggestions = Null
\* handleTeamSuggestions has succeeded: the server's team is the only one stored
C16_Witness ==
    /\ suggestions # Null
    /\ autoTeam = Null
    /\ selectedLanguage \in Languages
    /\ error = Null

StudentIds == [i \in 1..Len(students) |-> students[i].id]

\* C19: after any analyze-user and add-user actions on a fetched list with
\* unique ids, no two entries of students have the same id.
C19_UniqueIds ==
    \A i, j \in 1..Len(students) : StudentIds[i] = StudentIds[j] => i = j
\* an analysis or an addition has returned the profile that is first in a list
\* of several students, and the list holds it once
C19_Witness ==
    /\ Len(students) >= 2
    /\ selectedUser # Null
    /\ showOverview
    /\ selectedUser.id = students[1].id
    /\ request = Null

----------------------------------------------------------------------------
(* Specification of the graph build: the build on every profile list,      *)
(* then frames of the layout                                               *)

OutsideGraph == UNCHANGED <<scoreVars, teamVars, appVars, reactVars>>

SpecBuildInit == BuildInit /\ ScoreIdle /\ TeamIdle /\ AppIdle /\ ReactIdle
SpecBuildNext ==
    \/ BuildGraph /\ OutsideGraph
    \/ Animate /\ OutsideGraph
SpecBuild == SpecBuildInit /\ [][SpecBuildNext]_vars


----------------------------------------------------------------------------
(* Claims about the graph build                                            *)

EdgeSet == {edges[k] : k \in 1..Len(edges)}

\* C5: the built edge set has no edge of strength below 0.3 and no edge from a
\* node to itself.
C5_EdgesAboveThreshold ==
    \A e \in EdgeSet : e.strength >= 150 /\ e.source # e.target /\ e.source.id # e.target.id
\* a build that kept an edge and dropped a pair at or below the threshold
C5_Witness ==
    /\ nodes # << >> /\ frame = 0
    /\ edges # << >>
    /\ \E i, j \in 1..Len(users) :
          /\ i # j
          /\ calculateConnectionStrength(users[i], users[j]) <= 150
          /\ \A e \in EdgeSet : ~(e.source.id = users[i].id /\ e.target.id = users[j].id)

\* the two profiles have a lower-cased technology name or a language key in common
Overlap(u1, u2) ==
    \/ CountIncluded(LowerTechs(u1), LowerTechs(u2)) > 0
    \/ LanguageKeys(u1) \cap LanguageKeys(u2) # {}
NoOverlapAnywhere ==
    \A i, j \in 1..Len(users) : i # j => ~Overlap(users[i], users[j])

\* C9: the graph built from 5 profiles no two of which share a technology name
\* (compared lower-cased, as the build compares them) or a language has no edge,
\* whatever the activity counts.
C9_NoOverlapNoEdges ==
    (nodes # << >> /\ Len(users) = 5 /\ NoOverlapAnywhere) => edges = << >>
\* such a build, with two profiles of equal activity and two of distant activity
C9_Witness ==
    /\ nodes # << >> /\ Len(users) = 5 /\ NoOverlapAnywhere /\ edges = << >>
    /\ \E i, j \in 1..5 : i # j /\ Activity(users[i]) = Activity(users[j])
    /\ \E i, j \in 1..5 : Activity(users[i]) - Activity(users[j]) > 50

\* the position a step reads through an edge's end is the position of the node
\* with the same id in the array being stepped
EndIsCurrent(end) ==
    \A i \in 1..Len(nodes) :
        nodes[i].id = end.id => (end.x = nodes[i].x /\ end.y = nodes[i].y)

\* C26: in every simulation step after a build, the spring force of an edge is
\* computed from the node's current position and the other end's current
\* position: the position read through edge.source and edge.target is the
\* position of the node with the same id in the node array being stepped.
C26_SpringReadsCurrent ==
    [][frame' = frame + 1 =>
          \A k \in 1..Len(edges) : EndIsCurrent(edges[k].source) /\ EndIsCurrent(edges[k].target)]_vars
\* the same for the first step after the build alone
C26_FirstStepReadsCurrent ==
    [][(frame = 0 /\ frame' = 1) =>
          \A k \in 1..Len(edges) : EndIsCurrent(edges[k].source) /\ EndIsCurrent(edges[k].target)]_vars

----------------------------------------------------------------------------
(* Specification of the build on lists with many strong connections        *)

SpecDenseInit == DenseInit /\ ScoreIdle /\ TeamIdle /\ AppIdle /\ ReactIdle
SpecDenseNext ==
    \/ BuildGraph /\ OutsideGraph
SpecDense == SpecDenseInit /\ [][SpecDenseNext]_vars

\* the positions in edges of the edges that leave the node of users[i]
OutEdges(i) == {k \in 1..Len(edges) : edges[k].source.id = users[i].id}
\* the other profiles whose connection strength from users[i] exceeds 0.3
StrongOthers(i) ==
    {j \in 1..Len(users) \ {i} : calculateConnectionStrength(users[i], users[j]) > 150}
\* the positions in users of the targets of the edges that leave users[i]
KeptOthers(i) ==
    {j \in 1..Len(users) : \E k \in OutEdges(i) : edges[k].target.id = users[j].id}

\* C23: every node is the source of at most 3 edges, and its outgoing edges are
\* exactly its (up to) 3 strongest other nodes by connection strength that
\* exceed the 0.3 threshold, each once and with that strength: no node left out
\* has a strength above the threshold and strictly greater than a kept one.
C23_ThreeStrongest ==
    nodes # << >> =>
        \A i \in 1..Len(users) :
            /\ Cardinality(OutEdges(i)) <= 3
            /\ Cardinality(OutEdges(i)) = Cardinality(KeptOthers(i))
            /\ KeptOthers(i) \subseteq StrongOthers(i)
            /\ Cardinality(KeptOthers(i)) = Min(3, Cardinality(StrongOthers(i)))
            /\ \A k \in OutEdges(i) :
                  \E j \in KeptOthers(i) :
                      /\ edges[k].target.id = users[j].id
                      /\ edges[k].strength = calculateConnectionStrength(users[i], users[j])
            /\ \A j \in StrongOthers(i) \ KeptOthers(i) :
                  \A kept \in KeptOthers(i) :
                      calculateConnectionStrength(users[i], users[j])
                          <= calculateConnectionStrength(users[i], users[kept])
\* a node with four other nodes above the threshold: three kept, and the one
\* left out strictly weaker than one of the kept and listed before it
C23_Witness ==
    /\ nodes # << >>
    /\ \E i \in 1..Len(users) :
          /\ Cardinality(StrongOthers(i)) >= 4
          /\ Cardinality(OutEdges(i)) = 3
          /\ \E j \in StrongOthers(i) \ KeptOthers(i) :
                \E kept \in KeptOthers(i) :
                    /\ j < kept
                    /\ calculateConnectionStrength(users[i], users[j])
                          < calculateConnectionStrength(users[i], users[kept])

----------------------------------------------------------------------------
(* Specification of the component: mounts, renders, effects, host changes, *)
(* pointer events, timers and frame callbacks, in every order              *)

OutsideComponent == UNCHANGED <<scoreVars, teamVars, appVars>>

SpecComponentInit == ComponentInit /\ ScoreIdle /\ TeamIdle /\ AppIdle
SpecComponentNext ==
    \/ Mount /\ OutsideComponent
    \/ Unmount /\ OutsideComponent
    \/ HostUsers /\ OutsideComponent
    \/ HostSearch /\ OutsideComponent
    \/ HandleCanvasMouseLeave /\ OutsideComponent
    \/ HandleCanvasMouseMove /\ OutsideComponent
    \/ HandleCanvasClick /\ OutsideComponent
    \/ TimerFires /\ OutsideComponent
    \/ ClickTimerFires /\ OutsideComponent
    \/ FrameFires /\ OutsideComponent
    \/ Render /\ OutsideComponent
    \/ RenderUrgent /\ OutsideComponent
SpecComponent == SpecComponentInit /\ [][SpecComponentNext]_vars

\* Render and FrameFires can take a step exactly in these states (all their
\* other conjuncts assign)
RenderEnabled == mounted /\ RenderPending /\ frame < MaxCalls
FrameEnabled == frame < MaxCalls /\ scheduled # {}

\* the same component under fair scheduling: a render that stays pending is
\* made, and a frame callback that stays scheduled is run (weak fairness of
\* Render and of FrameFires, written out)
SpecComponentFair ==
    /\ SpecComponentInit
    /\ [][SpecComponentNext]_vars
    /\ ([]<>(~RenderEnabled) \/ []<><<Render /\ OutsideComponent>>_vars)
    /\ ([]<>(~FrameEnabled) \/ []<><<FrameFires /\ OutsideComponent>>_vars)

----------------------------------------------------------------------------
(* Claims about the component                                              *)

NodeIds(ns) == [i \in 1..Len(ns) |-> ns[i].id]
Geometry(ns) ==
    [i \in 1..Len(ns) |->
        [id |-> ns[i].id, x |-> ns[i].x, y |-> ns[i].y, vx |-> ns[i].vx, vy |-> ns[i].vy,
         radius |-> ns[i].radius]]
EdgeEnds(es) ==
    [i \in 1..Len(es) |->
        [source |-> es[i].source.id, target |-> es[i].target.id, strength |-> es[i].strength]]
QueuedValues(queue) == {queue[i].value : i \in {j \in 1..Len(queue) : queue[j].kind = "value"}}

C13_OneFramePending ==
    /\ Cardinality(scheduled) <= 1
    /\ \A f \in scheduled : mounted /\ loop # Null /\ f.id = loop.frameId
\* the effect has run again, or its frame callback has fired: the one pending
\* frame is not the first that was scheduled
C13_Witness ==
    /\ mounted
    /\ loop # Null
    /\ \E f \in scheduled : f.id > 1 /\ f.id = loop.frameId

\* C14: once the state updates queued when users or the selected profile changed
\* are processed, the node array holds one node per profile of the snapshot,
\* in order, with the profile's id (stated for a non-empty snapshot).
C14_RebuildKept ==
    (mounted /\ users # << >> /\ lastRender = "state")
        => NodeIds(nodes) = [i \in 1..Len(users) |-> users[i].id]

\* C15: once the state updates queued when the search term or the node set
\* changed are processed, a node's isSearched flag is true exactly when the term
\* is non-empty and a case-insensitive substring of the node's github_username,
\* name or one of its tech names.
C15_FlagsFollowSearch ==
    (mounted /\ lastRender = "state")
        => \A i \in 1..Len(nodes) :
              nodes[i].isSearched <=> IsSearched(nodes[i].user, searchTerm)

\* the arrays a click-triggered rebuild has queued
ClickBuilds ==
    {nodesQueue[i].value :
        i \in {j \in 1..Len(nodesQueue) :
                  /\ nodesQueue[j].kind = "value"
                  /\ nodesQueue[j].from = "build"
                  /\ nodesQueue[j].cause = "click"}}
OtherValues ==
    {nodesQueue[i].value :
        i \in {j \in 1..Len(nodesQueue) :
                  /\ nodesQueue[j].kind = "value"
                  /\ ~(nodesQueue[j].from = "build" /\ nodesQueue[j].cause = "click")}}

LayoutRuns == mounted /\ users # << >> /\ nodes # << >>
\* the arrays the calls of animate so far have set and no render has processed
PendingSteps ==
    {j \in 1..Len(nodesQueue) : nodesQueue[j].kind = "value" /\ nodesQueue[j].from = "animate"}
LatestStep == nodesQueue[CHOOSE j \in PendingSteps : \A k \in PendingSteps : k <= j].value
PendingBuilds ==
    {nodesQueue[j].value :
        j \in {k \in 1..Len(nodesQueue) :
                  nodesQueue[k].kind = "value" /\ nodesQueue[k].from = "build"}}

\* a further simulation step is always eventually executed while the layout
\* runs (up to the number of calls the model follows)
C27_StepEventually ==
    \A n \in 0..(MaxCalls - 1) :
        (LayoutRuns /\ frame = n) ~> (frame > n \/ ~LayoutRuns)
\* a step starts from the positions the previous step produced, or from those
\* of a rebuild
C27_StepsChain ==
    [][(mounted /\ frame' = frame + 1 /\ PendingSteps # {}) =>
          \A f \in scheduled' :
              f.id = frame' =>
                  Geometry(f.nodes) \in {Geometry(LatestStep)}
                                           \cup {Geometry(v) : v \in PendingBuilds}]_vars
----------------------------------------------------------------------------
(* Specification of the click: handleCanvasClick on every placed array     *)

\* the component showing a placed array, nothing queued
ClickInit ==
    /\ mounted = TRUE
    /\ nodes \in UNION {PlacedArrays(n) : n \in 1..MaxStepNodes}
    /\ edges = << >>
    /\ users = [i \in 1..Len(nodes) |-> nodes[i].user]
    /\ frame = 0
    /\ selectedUserProp = Null
    /\ searchTerm = << >>
    /\ hostNext = [users |-> users, selectedUser |-> Null, searchTerm |-> << >>,
                   lane |-> "none", cause |-> "none"]
    /\ hoveredNode = Null
    /\ tooltip = Null
    /\ clickedNode = Null
    /\ animationTime = 0
    /\ nodesRef = 0
    /\ nodesQueue = << >>
    /\ edgesQueue = << >>
    /\ uiQueue = << >>
    /\ timeQueue = 0
    /\ timer = FALSE
    /\ clickTimers = 0
    /\ loop = Null
    /\ scheduled = {}
    /\ emitted = << >>
    /\ lastRender = "state"
    /\ panel = Null
    /\ events = 0

SpecClickInit == ClickInit /\ ScoreIdle /\ TeamIdle /\ AppIdle
SpecClickNext ==
    \/ HandleCanvasClick /\ OutsideComponent
SpecClick == SpecClickInit /\ [][SpecClickNext]_vars

\* the nodes whose centre is at distance <= radius from the point
NodesAround(point) ==
    {i \in 1..Len(nodes) :
        (nodes[i].x - point[1]) * (nodes[i].x - point[1])
          + (nodes[i].y - point[2]) * (nodes[i].y - point[2])
            <= 100 * nodes[i].radius * nodes[i].radius}

\* C18: a click at canvas point p emits onUserSelect exactly once, with the
\* profile of the first node in array order whose centre is at distance <=
\* radius from p, and emits nothing when no node's circle contains p.
C18_FirstHitEmitted ==
    [][\A p \in PointerPoints :
          ClickAt(p) =>
              IF NodesAround(p) = {} THEN emitted' = emitted
              ELSE \E i \in NodesAround(p) :
                      /\ \A j \in NodesAround(p) : i <= j
                      /\ emitted' = Append(emitted, nodes[i].user)]_vars
\* a click at a point inside two circles has emitted the profile of the first
C18_Witness ==
    \E p \in PointerPoints :
        /\ Cardinality(NodesAround(p)) >= 2
        /\ \E i \in NodesAround(p) :
              /\ \A j \in NodesAround(p) : i <= j
              /\ emitted = <<nodes[i].user>>
----------------------------------------------------------------------------
(* Specification of the hover: handleCanvasMouseMove on every placed       *)
(* array, and the renders that draw the tooltip                            *)

SpecHoverInit == ClickInit /\ ScoreIdle /\ TeamIdle /\ AppIdle
SpecHoverNext ==
    \/ HandleCanvasMouseMove /\ OutsideComponent
    \/ Render /\ OutsideComponent
SpecHover == SpecHoverInit /\ [][SpecHoverNext]_vars

\* the pointer position the tooltip was set for is inside the canvas
PointerInsideCanvas ==
    /\ tooltip.x >= 0 /\ tooltip.x <= CANVAS_WIDTH * 10
    /\ tooltip.y >= 0 /\ tooltip.y <= CANVAS_HEIGHT * 10

\* C28: whenever a tooltip is drawn for a pointer position inside the 800x400
\* canvas, its 180x100 panel lies entirely inside the canvas: left and top edges
\* >= 0, right edge <= 800, bottom edge <= 400.
C28_PanelInsideCanvas ==
    panel # Null =>
        /\ panel.x >= 0
        /\ panel.y >= 0
        /\ panel.x + panel.width <= CANVAS_WIDTH * 10
        /\ panel.y + panel.height <= CANVAS_HEIGHT * 10
\* tooltips drawn for pointers near the right and the bottom edge, where the
\* panel at the pointer would leave the canvas
C28_Witness ==
    /\ mounted /\ tooltip # Null /\ PointerInsideCanvas
    /\ panel # Null
    /\ \/ tooltip.x + 150 + 1800 > CANVAS_WIDTH * 10
       \/ tooltip.y + 1000 > CANVAS_HEIGHT * 10

----------------------------------------------------------------------------
(* Specification of the layout step: applyForces on every placed array     *)

SpecStepInit == StepInit /\ ScoreIdle /\ TeamIdle /\ AppIdle /\ ReactIdle
SpecStepNext == Animate /\ OutsideGraph
SpecStep == SpecStepInit /\ [][SpecStepNext]_vars


----------------------------------------------------------------------------
(* Claims about the layout step                                            *)

\* C6: after one applyForces step every node's x is in [radius + 15,
\* 800 - radius - 15] and its y in [radius + 15, 400 - radius - 15], whatever
\* the position and velocity it had; the boundary clamp leaves such a position
\* unchanged.
C6_InsideAfterStep ==
    frame >= 1 =>
        \A i \in 1..Len(nodes) :
            LET margin == (nodes[i].radius + 15) * 10
            IN /\ nodes[i].x >= margin /\ nodes[i].x <= CANVAS_WIDTH * 10 - margin
               /\ nodes[i].y >= margin /\ nodes[i].y <= CANVAS_HEIGHT * 10 - margin
               /\ BoundaryClamp(margin, CANVAS_WIDTH * 10, nodes[i].x) = nodes[i].x
               /\ BoundaryClamp(margin, CANVAS_HEIGHT * 10, nodes[i].y) = nodes[i].y
\* one step taken from a position left of the canvas (the edge still holds the
\* node as it was placed) and one from beyond the bottom right corner
C6_Witness ==
    /\ frame = 1 /\ Len(nodes) = 2 /\ edges # << >>
    /\ edges[1].source.x = -500 /\ nodes[1].x = (nodes[1].radius + 15) * 10
    /\ edges[1].target.x = 9000 /\ edges[1].target.y = 4500
    /\ nodes[2].x = CANVAS_WIDTH * 10 - (nodes[2].radius + 15) * 10
    /\ nodes[2].y = CANVAS_HEIGHT * 10 - (nodes[2].radius + 15) * 10

====
